---- MODULE Spec2Model ----
(***************************************************************************)
(* A model of the tenfoot game launcher core: the GameLibrary (registry,   *)
(* refresh_all, cached catalog, find_game, launch_game) and the ownership  *)
(* reconciliation done by the sync_* and get_*_games_cached commands.      *)
(*                                                                         *)
(* Strings whose content the code inspects (names, ids, unique keys) are   *)
(* sequences of one-character strings; paths are opaque strings.           *)
(* Option<T> is <<>> for None and <<v>> for Some(v).                       *)
(***************************************************************************)
EXTENDS Integers, Sequences, FiniteSets, TLC

(***************************************************************************)
(* Characters and strings                                                  *)
(***************************************************************************)

\* The printable ASCII characters in code-point order, from ' ' (32) to '~' (126),
\* without the grave accent (96), which no name, id or key of the model uses.
Ascii ==
    << " ", "!", "\"", "#", "$", "%", "&", "'", "(", ")", "*", "+", ",", "-", ".", "/",
       "0", "1", "2", "3", "4", "5", "6", "7", "8", "9", ":", ";", "<", "=", ">", "?",
       "@", "A", "B", "C", "D", "E", "F", "G", "H", "I", "J", "K", "L", "M", "N", "O",
       "P", "Q", "R", "S", "T", "U", "V", "W", "X", "Y", "Z", "[", "\\", "]", "^", "_",
       "a", "b", "c", "d", "e", "f", "g", "h", "i", "j", "k", "l", "m", "n", "o",
       "p", "q", "r", "s", "t", "u", "v", "w", "x", "y", "z", "{", "|", "}", "~" >>

\* Position of each character in Ascii.
OrdTable == [c \in { Ascii[i] : i \in 1..Len(Ascii) } |->
                CHOOSE i \in 1..Len(Ascii) : Ascii[i] = c]

\* Position of a character in Ascii: it orders characters as their code points do.
Ord(c) == OrdTable[c]

\* char::to_lowercase on ASCII: 'A'..'Z' move to 'a'..'z', everything else stays.
LowerChar(c) ==
    LET i == Ord(c)
    IN  IF i >= Ord("A") /\ i <= Ord("Z") THEN Ascii[i + (Ord("a") - Ord("A"))] ELSE c

\* str::to_lowercase
to_lowercase(s) == [i \in 1..Len(s) |-> LowerChar(s[i])]

\* Ord for String: lexicographic by code point, a proper prefix is smaller.
\* Returns -1, 0 or 1 (Ordering::Less, Equal, Greater).
RECURSIVE StrCmp(_, _)
StrCmp(a, b) ==
    IF a = <<>> /\ b = <<>> THEN 0
    ELSE IF a = <<>> THEN -1
    ELSE IF b = <<>> THEN 1
    ELSE IF Ord(Head(a)) < Ord(Head(b)) THEN -1
    ELSE IF Ord(Head(a)) > Ord(Head(b)) THEN 1
    ELSE StrCmp(Tail(a), Tail(b))

\* str::starts_with
starts_with(s, prefix) ==
    /\ Len(s) >= Len(prefix)
    /\ SubSeq(s, 1, Len(prefix)) = prefix

\* Index of the first occurrence of character c in s, 0 when there is none.
FirstIndexOf(s, c) ==
    IF \E i \in 1..Len(s) : s[i] = c
    THEN CHOOSE i \in 1..Len(s) : s[i] = c /\ \A j \in 1..(i - 1) : s[j] # c
    ELSE 0

\* str::splitn(2, ':') collected into a Vec: one part when there is no ':',
\* otherwise the text before the first ':' and everything after it.
splitn2(s) ==
    LET i == FirstIndexOf(s, ":")
    IN  IF i = 0 THEN << s >>
        ELSE << SubSeq(s, 1, i - 1), SubSeq(s, i + 1, Len(s)) >>

(***************************************************************************)
(* Games                                                                   *)
(***************************************************************************)

StoreTypes == {"Steam", "Epic", "Gog"}

\* impl Display for StoreType
StoreDisplay(st) ==
    CASE st = "Steam" -> << "S", "t", "e", "a", "m" >>
      [] st = "Epic"  -> << "E", "p", "i", "c" >>
      [] st = "Gog"   -> << "G", "O", "G" >>

None == <<>>
Some(v) == << v >>

\* Game::new followed by field assignments.
MkGame(id, name, store, installed, path, exe, size) ==
    [ id |-> id, name |-> name, store |-> store, installed |-> installed,
      install_path |-> path, executable |-> exe, size_bytes |-> size ]

\* Game::unique_key with the id lower-cased along with the store name.
unique_key_lower_all(g) == to_lowercase(StoreDisplay(g.store) \o << ":" >> \o g.id)

\* Game::unique_key
unique_key(g) == to_lowercase(StoreDisplay(g.store)) \o << ":" >> \o g.id

\* Result<_, LauncherError>
Ok(v) == [ok |-> TRUE, val |-> v]
Err(kind, msg) == [ok |-> FALSE, kind |-> kind, msg |-> msg]

(***************************************************************************)
(* The games the platform scans can find on this machine                   *)
(***************************************************************************)

s_1 == << "1" >>
s_2 == << "2" >>
s_ab == << "a", ":", "b" >>
s_Zelda == << "Z", "e", "l", "d", "a" >>
s_apex == << "a", "p", "e", "x" >>
s_Apex == << "A", "p", "e", "x" >>
s_App1 == << "A", "p", "p", " ", "1" >>
s_AppPrefix == << "A", "p", "p", " " >>

\* A Steam manifest parse: installed, install_path when the directory exists,
\* size_bytes when SizeOnDisk parses, never an executable.
LS1 == MkGame(s_1, s_Zelda, "Steam", TRUE, Some("/lib1/common/zelda"), None, Some(5))
\* The same appid found again in a second library folder.
LS1dup == MkGame(s_1, s_apex, "Steam", TRUE, Some("/lib2/common/zelda"), None, Some(7))
LS2 == MkGame(s_2, s_Apex, "Steam", TRUE, None, None, None)
\* An Epic manifest parse: installed, install_path always recorded, executable
\* when it exists on disk.
LE1 == MkGame(s_1, s_apex, "Epic", TRUE, Some("/epic/one"), Some("/epic/one/run"), Some(3))
LE2 == MkGame(s_ab, s_Zelda, "Epic", TRUE, Some("/epic/ab"), None, None)
\* A GOG database row: installed, install_path when the join finds one.
LG1 == MkGame(s_1, s_Apex, "Gog", TRUE, Some("/gog/one"), None, None)
\* An entry as Game::new leaves it, not installed: the GameStore trait lets an
\* adapter report one, and the library takes whatever its adapters return.
LG2 == MkGame(s_2, s_Zelda, "Gog", FALSE, None, None, None)

LocalGames(a) ==
    CASE a = "Steam" -> {LS1, LS1dup, LS2}
      [] a = "Epic"  -> {LE1, LE2}
      [] a = "Gog"   -> {LG1, LG2}

\* The most manifests or rows one scan finds.
MaxScan == 2

\* Sequences over S of length at most n.
RECURSIVE ListsUpTo(_, _)
ListsUpTo(S, n) ==
    IF n = 0 THEN { <<>> }
    ELSE LET shorter == ListsUpTo(S, n - 1)
         IN  shorter \cup { Append(l, x) : l \in { m \in shorter : Len(m) = n - 1 },
                                            x \in S }

NoRepeat(l) == \A i, j \in 1..Len(l) : i # j => l[i] # l[j]

ScanLists(a) == { l \in ListsUpTo(LocalGames(a), MaxScan) : NoRepeat(l) }

\* What GameStore::get_installed_games can return for adapter a: the Steam scan
\* fails when libraryfolders.vdf cannot be read, the GOG scan when the database
\* cannot be opened or queried; the Epic scan always returns Ok.
ScanOutcomesTable ==
    [a \in StoreTypes |->
        { Ok(l) : l \in ScanLists(a) } \cup
        ( CASE a = "Steam" -> { Err("IoError", "libraryfolders.vdf") }
            [] a = "Epic"  -> {}
            [] a = "Gog"   -> { Err("DatabaseError", "galaxy-2.0.db") } )]

ScanOutcomes(a) == ScanOutcomesTable[a]

NotCalled == [ok |-> FALSE, kind |-> "NotCalled", msg |-> ""]

(***************************************************************************)
(* GameLibrary                                                             *)
(***************************************************************************)

\* store_id spelled as the Display of the StoreType.
StoreIdCased(a) == StoreDisplay(a)

\* GameStore::store_id of the three adapters.
StoreId(a) ==
    CASE a = "Steam" -> << "s", "t", "e", "a", "m" >>
      [] a = "Epic"  -> << "e", "p", "i", "c" >>
      [] a = "Gog"   -> << "g", "o", "g" >>

\* The comparator of refresh_all's sort with the to_lowercase calls dropped.
name_cmp_raw(a, b) == StrCmp(a.name, b.name)

\* The comparator of refresh_all's sort_by.
name_cmp(a, b) == StrCmp(to_lowercase(a.name), to_lowercase(b.name))

\* Insert x into a list sorted by name_cmp, after every element not greater than it.
InsertStable(sorted, x) ==
    LET k == Cardinality({ i \in 1..Len(sorted) : name_cmp(sorted[i], x) <= 0 })
    IN  SubSeq(sorted, 1, k) \o << x >> \o SubSeq(sorted, k + 1, Len(sorted))

\* slice::sort_by with name_cmp: a stable sort.
RECURSIVE sort_by(_)
sort_by(l) ==
    IF l = <<>> THEN <<>>
    ELSE InsertStable(sort_by(SubSeq(l, 1, Len(l) - 1)), l[Len(l)])

\* The loop of refresh_all with a scan error ending the loop, as a `?` on the
\* scan result would.
RECURSIVE collect_abort(_, _)
collect_abort(ord, outs) ==
    IF ord = <<>> THEN <<>>
    ELSE IF outs[Head(ord)].ok THEN outs[Head(ord)].val \o collect_abort(Tail(ord), outs)
    ELSE IF outs[Head(ord)].kind = "NotCalled" THEN collect_abort(Tail(ord), outs)
    ELSE <<>>

\* The loop of refresh_all: visit the adapters in the registry's iteration
\* order and extend all_games with every Ok result; outs[a] is what adapter a's
\* get_installed_games returned, or NotCalled.
RECURSIVE collect(_, _)
collect(ord, outs) ==
    IF ord = <<>> THEN <<>>
    ELSE (IF outs[Head(ord)].ok THEN outs[Head(ord)].val ELSE <<>>)
         \o collect(Tail(ord), outs)

\* The cache write of refresh_all done as an extend of the old cache.
SwapCacheExtend(old, new) == old \o new

\* The cache write of refresh_all: *games_guard = all_games.clone()
SwapCache(old, new) == new

\* get_installed_games without its filter.
get_installed_games_all(cache) == cache

\* GameLibrary::get_installed_games: the cached games with installed = true.
get_installed_games(cache) == SelectSeq(cache, LAMBDA g : g.installed)

\* find_game comparing keys case-insensitively.
find_game_nocase(cache, key) ==
    LET hits == { i \in 1..Len(cache) : to_lowercase(unique_key(cache[i])) = to_lowercase(key) }
    IN  IF hits = {} THEN None
        ELSE Some(cache[CHOOSE i \in hits : \A j \in hits : i <= j])

\* GameLibrary::find_game: the first cached game whose unique key is `key`.
find_game(cache, key) ==
    LET hits == { i \in 1..Len(cache) : unique_key(cache[i]) = key }
    IN  IF hits = {} THEN None
        ELSE Some(cache[CHOOSE i \in hits : \A j \in hits : i <= j])

\* launch_game splitting at the last ':' instead of the first.
launch_game_rsplit(reg, key, adapterResult) ==
    LET idx == { i \in 1..Len(key) : key[i] = ":" }
    IN  IF idx = {}
        THEN [res |-> Err("GameNotFound", key), calls |-> <<>>]
        ELSE LET i == CHOOSE i \in idx : \A j \in idx : j <= i
                 store_id == SubSeq(key, 1, i - 1)
                 game_id == SubSeq(key, i + 1, Len(key))
                 found == { a \in reg : StoreId(a) = store_id }
             IN  IF found = {}
                 THEN [res |-> Err("StoreNotFound", store_id), calls |-> <<>>]
                 ELSE [res |-> adapterResult,
                       calls |-> << [adapter |-> CHOOSE a \in found : TRUE,
                                     game_id |-> game_id] >>]

\* launch_game reporting an unknown store as GameNotFound, like a malformed key.
launch_game_conflate(reg, key, adapterResult) ==
    LET parts == splitn2(key)
    IN  IF Len(parts) # 2
        THEN [res |-> Err("GameNotFound", key), calls |-> <<>>]
        ELSE LET found == { a \in reg : StoreId(a) = parts[1] }
             IN  IF found = {}
                 THEN [res |-> Err("GameNotFound", key), calls |-> <<>>]
                 ELSE [res |-> adapterResult,
                       calls |-> << [adapter |-> CHOOSE a \in found : TRUE,
                                     game_id |-> parts[2]] >>]

\* GameLibrary::launch_game. reg is the registry, adapterResult what the
\* adapter's launch_game returns if it is called. The value is the result
\* together with the adapter calls made.
launch_game(reg, key, adapterResult) ==
    LET parts == splitn2(key)
    IN  IF Len(parts) # 2
        THEN [res |-> Err("GameNotFound", key), calls |-> <<>>]
        ELSE LET store_id == parts[1]
                 game_id == parts[2]
                 found == { a \in reg : StoreId(a) = store_id }
             IN  IF found = {}
                 THEN [res |-> Err("StoreNotFound", store_id), calls |-> <<>>]
                 ELSE [res |-> adapterResult,
                       calls |-> << [adapter |-> CHOOSE a \in found : TRUE,
                                     game_id |-> game_id] >>]

\* What an adapter's launch_game can return: the process was requested, or the
\* client executable is missing / the spawn failed.
LaunchOutcomes == { Ok("unit"), Err("LaunchError", "spawn") }

\* The keys callers pass to find_game and launch_game.
k_badkey == << "b", "a", "d", "k", "e", "y" >>
k_nostore == << "n", "o", "s", "t", "o", "r", "e", ":", "1" >>
k_steam1 == << "s", "t", "e", "a", "m", ":", "1" >>
k_Steam1 == << "S", "t", "e", "a", "m", ":", "1" >>
k_steam2 == << "s", "t", "e", "a", "m", ":", "2" >>
k_epic1 == << "e", "p", "i", "c", ":", "1" >>
k_epicab == << "e", "p", "i", "c", ":", "a", ":", "b" >>
k_gog1 == << "g", "o", "g", ":", "1" >>
k_empty == << >>

Keys == { k_badkey, k_nostore, k_steam1, k_Steam1, k_steam2, k_epic1, k_epicab,
          k_gog1, k_empty }

(***************************************************************************)
(* State                                                                   *)
(***************************************************************************)

VARIABLES
    phase,       \* "setup" while stores are being registered, then "run"
    stores,      \* GameLibrary.stores: the registered adapters
    available,   \* is_available() of each adapter, fixed when it is constructed
    order,       \* the iteration order of the stores HashMap
    games,       \* GameLibrary.games: the cached catalog
    obs,         \* the value the last call handed back to its caller
    pc,          \* per thread: where its refresh_all stands
    all_games,   \* per thread: the local all_games of its refresh_all
    lastWrite,   \* the all_games of the refresh_all that last wrote the cache
    steam_creds, \* credentials.json: the steam entry, None or Some
    epic_creds,  \* credentials.json: the epic entry, None or Some(access token)
    cache,       \* games_cache.json
    now,         \* SystemTime::now(), in seconds since the epoch
    cmd,         \* the command in progress: its position and its locals
    held,        \* who holds the library mutex and the storage mutex of AppState
    net,         \* the network requests issued so far, in order
    disk         \* the manifest files of the directory a scan reads

libVars == << phase, stores, available, order, games >>
concVars == << pc, all_games, lastWrite >>
syncVars == << steam_creds, epic_creds, cache >>
extVars == << now, cmd, held, net, disk >>
vars == << phase, stores, available, order, games, obs, pc, all_games, lastWrite,
           steam_creds, epic_creds, cache, now, cmd, held, net, disk >>

\* The most threads inside refresh_all at once.
NumThreads == 2
Threads == 1..NumThreads

NoObs == [op |-> "none"]

\* No command in progress, both mutexes free.
NoCmd == [op |-> "none", pc |-> "idle"]
NoLocks == [library |-> None, storage |-> None]

\* The variables the GameLibrary and the atomic commands never touch, at rest.
ExtInit ==
    /\ now = 0
    /\ cmd = NoCmd
    /\ held = NoLocks
    /\ net = <<>>
    /\ disk = <<>>

\* GamesCache::default, what load_games_cache returns when there is no file.
EmptyCache ==
    [ steam_owned |-> <<>>, last_sync |-> None,
      epic_owned |-> <<>>, epic_last_sync |-> None, epic_metadata |-> {} ]

Perms(S) == { l \in ListsUpTo(S, Cardinality(S)) : Len(l) = Cardinality(S) /\ NoRepeat(l) }

\* GameLibrary::new: no store, an empty cache.
Init ==
    /\ phase = "setup"
    /\ stores = {}
    /\ available = [a \in StoreTypes |-> FALSE]
    /\ order = <<>>
    /\ games = <<>>
    /\ obs = NoObs
    /\ pc = [t \in Threads |-> "idle"]
    /\ all_games = [t \in Threads |-> <<>>]
    /\ lastWrite = <<>>
    /\ steam_creds = None
    /\ epic_creds = None
    /\ cache = EmptyCache
    /\ ExtInit

(***************************************************************************)
(* Setup                                                                   *)
(***************************************************************************)

\* GameLibrary::register_store: insert under store_id, the last one wins.
RegisterStore(a, av) ==
    /\ phase = "setup"
    /\ stores' = stores \cup {a}
    /\ available' = [available EXCEPT ![a] = av]
    /\ UNCHANGED << extVars, phase, order, games, obs, concVars, syncVars >>

\* The library is handed to its callers; from here on the registry is only
\* read, and its HashMap iterates in one fixed order.
Share ==
    /\ phase = "setup"
    /\ phase' = "run"
    /\ order' \in Perms(stores)
    /\ UNCHANGED << extVars, stores, available, games, obs, concVars, syncVars >>

(***************************************************************************)
(* GameLibrary calls, each one atomic                                      *)
(***************************************************************************)

Ready == phase = "run" /\ obs = NoObs

\* What each adapter's scan may return in one refresh_all: an adapter that is
\* not available is not asked.
ScanChoices(a) ==
    IF a \in stores /\ available[a] THEN ScanOutcomes(a) ELSE { NotCalled }

\* GameLibrary::refresh_all
RefreshAll ==
    /\ Ready
    /\ \E o1 \in ScanChoices("Steam"), o2 \in ScanChoices("Epic"), o3 \in ScanChoices("Gog") :
         \E outs \in { [a \in StoreTypes |->
                        CASE a = "Steam" -> o1 [] a = "Epic" -> o2 [] a = "Gog" -> o3] } :
         \E discovered \in { collect(order, outs) } :
         \E sorted \in { sort_by(discovered) } :
             /\ games' = SwapCache(games, sorted)
             /\ lastWrite' = sorted
             /\ obs' = [op |-> "refresh_all", res |-> Ok(sorted), outs |-> outs,
                        discovered |-> discovered,
                        scanned |-> { a \in StoreTypes : outs[a] # NotCalled }]
    /\ UNCHANGED << extVars, phase, stores, available, order, pc, all_games, syncVars >>

\* GameLibrary::get_games
GetGames ==
    /\ Ready
    /\ obs' = [op |-> "get_games", res |-> games, scanned |-> {}]
    /\ UNCHANGED << extVars, libVars, concVars, syncVars >>

\* GameLibrary::get_installed_games
GetInstalledGames ==
    /\ Ready
    /\ obs' = [op |-> "get_installed_games", res |-> get_installed_games(games),
               scanned |-> {}]
    /\ UNCHANGED << extVars, libVars, concVars, syncVars >>

\* GameLibrary::find_game
FindGame(k) ==
    /\ Ready
    /\ obs' = [op |-> "find_game", key |-> k, res |-> find_game(games, k), scanned |-> {}]
    /\ UNCHANGED << extVars, libVars, concVars, syncVars >>

\* GameLibrary::launch_game
LaunchGame(k) ==
    /\ Ready
    /\ \E r \in LaunchOutcomes :
         LET out == launch_game(stores, k, r)
         IN  obs' = [op |-> "launch_game", key |-> k, res |-> out.res,
                     calls |-> out.calls, adapterResult |-> r]
    /\ UNCHANGED << extVars, libVars, concVars, syncVars >>

\* The caller takes the returned value; nothing of it stays in the library.
DropResult ==
    /\ obs # NoObs
    /\ obs' = NoObs
    /\ UNCHANGED << extVars, libVars, concVars, syncVars >>

Next ==
    \/ \E a \in StoreTypes, av \in BOOLEAN : RegisterStore(a, av)
    \/ Share
    \/ RefreshAll
    \/ GetGames
    \/ GetInstalledGames
    \/ \E k \in Keys : FindGame(k)
    \/ \E k \in Keys : LaunchGame(k)
    \/ DropResult

Spec == Init /\ [][Next]_vars

(***************************************************************************)
(* refresh_all called from several threads at once                         *)
(***************************************************************************)

\* AppState::new on a machine with the Epic and GOG clients and no Steam
\* client: three adapters registered, the Steam one unavailable.
InitConc ==
    /\ phase = "run"
    /\ stores = StoreTypes
    /\ available = [a \in StoreTypes |-> a # "Steam"]
    /\ order \in Perms(StoreTypes)
    /\ games = <<>>
    /\ obs = NoObs
    /\ pc = [t \in Threads |-> "idle"]
    /\ all_games = [t \in Threads |-> <<>>]
    /\ lastWrite = <<>>
    /\ steam_creds = None
    /\ epic_creds = None
    /\ cache = EmptyCache
    /\ ExtInit

\* refresh_all up to the sort: the scans and the sort work on the local
\* all_games, no lock on the cache is held.
RefreshScan(t) ==
    /\ Ready
    /\ pc[t] = "idle"
    /\ \E o1 \in ScanChoices("Steam"), o2 \in ScanChoices("Epic"), o3 \in ScanChoices("Gog") :
         LET outs == [a \in StoreTypes |->
                        CASE a = "Steam" -> o1 [] a = "Epic" -> o2 [] a = "Gog" -> o3]
         IN  all_games' = [all_games EXCEPT ![t] = sort_by(collect(order, outs))]
    /\ pc' = [pc EXCEPT ![t] = "write"]
    /\ UNCHANGED << extVars, libVars, obs, lastWrite, syncVars >>

\* refresh_all from games.write() to the return: the write guard is held
\* until the function returns, so the assignment and the return are one step.
RefreshWrite(t) ==
    /\ Ready
    /\ pc[t] = "write"
    /\ games' = SwapCache(games, all_games[t])
    /\ lastWrite' = all_games[t]
    /\ obs' = [op |-> "refresh_all", res |-> Ok(all_games[t])]
    /\ pc' = [pc EXCEPT ![t] = "idle"]
    /\ all_games' = [all_games EXCEPT ![t] = <<>>]
    /\ UNCHANGED << extVars, phase, stores, available, order, syncVars >>

NextConc ==
    \/ \E t \in Threads : RefreshScan(t)
    \/ \E t \in Threads : RefreshWrite(t)
    \/ GetGames
    \/ DropResult

SpecConc == InitConc /\ [][NextConc]_vars

(***************************************************************************)
(* Ownership reconciliation: the sync and cached commands                  *)
(***************************************************************************)

s_3 == << "3" >>
s_App3 == << "A", "p", "p", " ", "3" >>

\* Games as SteamApi::get_owned_games builds them: not installed, no local
\* field; the name is "App <appid>" when the API sent none.
RS1 == MkGame(s_1, s_App1, "Steam", FALSE, None, None, None)
RS2 == MkGame(s_2, s_Zelda, "Steam", FALSE, None, None, None)
RS3 == MkGame(s_3, s_App3, "Steam", FALSE, None, None, None)

\* Games as EpicApi::get_library builds them: not installed, no local field,
\* the catalog title as name.
RE1 == MkGame(s_1, s_Apex, "Epic", FALSE, None, None, None)
REab == MkGame(s_ab, s_App1, "Epic", FALSE, None, None, None)

\* What the owned-games request of each platform can answer.
SteamFetchOutcomes ==
    { Ok(<<>>), Ok(<< RS1, RS2 >>), Ok(<< RS3, RS1 >>),
      Err("NetworkError", "send"), Err("ParseError", "json") }
EpicFetchOutcomes ==
    { Ok(<<>>), Ok(<< RE1 >>), Ok(<< REab, RE1 >>),
      Err("NetworkError", "send"), Err("AuthRequired", "Epic token expired"),
      Err("ParseError", "json") }

Tokens == { "tokA", "tokB" }

\* What ensure_valid_token can return for the stored access token tok: the
\* same credentials, refreshed ones, or the failure of the refresh exchange.
TokenOutcomes(tok) ==
    { Ok(tok) } \cup { Ok(t) : t \in Tokens } \cup
    { Err("AuthRequired", "refresh"), Err("NetworkError", "send"), Err("ParseError", "json") }

\* installed_map looked up with the first entry of an id winning.
map_get_first(installed_games, st, id) ==
    LET hits == { i \in 1..Len(installed_games) :
                    installed_games[i].store = st /\ installed_games[i].id = id }
    IN  IF hits = {} THEN None
        ELSE Some(installed_games[CHOOSE i \in hits : \A j \in hits : i <= j])

\* installed_map.get(id): the map is collected from the installed games of
\* one store, keyed by id, so the last entry of an id is the one kept.
map_get(installed_games, st, id) ==
    LET hits == { i \in 1..Len(installed_games) :
                    installed_games[i].store = st /\ installed_games[i].id = id }
    IN  IF hits = {} THEN None
        ELSE Some(installed_games[CHOOSE i \in hits : \A j \in hits : j <= i])

\* The Steam sync closure adding the local size to the game's own.
merge_steam_sync_sum(game, m) ==
    IF m = None THEN game
    ELSE [game EXCEPT
            !.installed = TRUE,
            !.install_path = m[1].install_path,
            !.executable = m[1].executable,
            !.size_bytes = IF m[1].size_bytes = None THEN game.size_bytes
                           ELSE IF game.size_bytes = None THEN m[1].size_bytes
                           ELSE Some(game.size_bytes[1] + m[1].size_bytes[1]),
            !.name = IF starts_with(game.name, s_AppPrefix) THEN m[1].name ELSE game.name]

\* The Steam sync closure taking the local name whatever the remote name is.
merge_steam_sync_localname(game, m) ==
    IF m = None THEN game
    ELSE [game EXCEPT
            !.installed = TRUE,
            !.install_path = m[1].install_path,
            !.executable = m[1].executable,
            !.size_bytes = m[1].size_bytes,
            !.name = m[1].name]

\* The closure of sync_steam_library's merge; m is installed_map.get(&game.id).
merge_steam_sync(game, m) ==
    IF m = None THEN game
    ELSE [game EXCEPT
            !.installed = TRUE,
            !.install_path = m[1].install_path,
            !.executable = m[1].executable,
            !.size_bytes = m[1].size_bytes,
            !.name = IF starts_with(game.name, s_AppPrefix) THEN m[1].name ELSE game.name]

\* The closure of sync_epic_library's merge.
merge_epic_sync(game, m) ==
    IF m = None THEN game
    ELSE [game EXCEPT
            !.installed = TRUE,
            !.install_path = m[1].install_path,
            !.executable = m[1].executable,
            !.size_bytes = m[1].size_bytes]

\* The closure of get_steam_games_cached's merge.
merge_steam_cached(game, m) ==
    IF m = None THEN [game EXCEPT !.installed = FALSE]
    ELSE [game EXCEPT
            !.installed = TRUE,
            !.install_path = m[1].install_path,
            !.size_bytes = m[1].size_bytes,
            !.name = IF starts_with(game.name, s_AppPrefix) THEN m[1].name ELSE game.name]

\* The closure of get_epic_games_cached's merge.
merge_epic_cached(game, m) ==
    IF m = None THEN [game EXCEPT !.installed = FALSE]
    ELSE [game EXCEPT
            !.installed = TRUE,
            !.install_path = m[1].install_path,
            !.size_bytes = m[1].size_bytes]

\* The merge followed by the local games of the store that are not owned.
sync_merge_add_local(st, owned, installed_games) ==
    [i \in 1..Len(owned) |->
        IF st = "Steam"
        THEN merge_steam_sync(owned[i], map_get(installed_games, "Steam", owned[i].id))
        ELSE merge_epic_sync(owned[i], map_get(installed_games, "Epic", owned[i].id))]
    \o SelectSeq(installed_games,
                 LAMBDA g : g.store = st /\ \A i \in 1..Len(owned) : owned[i].id # g.id)

\* merged_games of sync_steam_library / sync_epic_library.
sync_merge(st, owned, installed_games) ==
    [i \in 1..Len(owned) |->
        IF st = "Steam"
        THEN merge_steam_sync(owned[i], map_get(installed_games, "Steam", owned[i].id))
        ELSE merge_epic_sync(owned[i], map_get(installed_games, "Epic", owned[i].id))]

\* updated_games of get_steam_games_cached / get_epic_games_cached.
cached_merge(st, owned, installed_games) ==
    [i \in 1..Len(owned) |->
        IF st = "Steam"
        THEN merge_steam_cached(owned[i], map_get(installed_games, "Steam", owned[i].id))
        ELSE merge_epic_cached(owned[i], map_get(installed_games, "Epic", owned[i].id))]

\* What get_*_games_cached returns: with nothing persisted, the installed
\* games of the store.
cached_result(st, owned, installed_games) ==
    IF owned = <<>> THEN SelectSeq(installed_games, LAMBDA g : g.store = st)
    ELSE cached_merge(st, owned, installed_games)

\* The Steam persist step leaving the sync time as it was.
persist_steam_keep_stamp(c, merged_games) ==
    [c EXCEPT !.steam_owned = merged_games]

\* sync_steam_library, step 4: the cache file is loaded, its Steam list and
\* sync time are replaced, and it is saved.
persist_steam(c, merged_games) ==
    [c EXCEPT !.steam_owned = merged_games, !.last_sync = Some("now")]

\* sync_epic_library: the same for the Epic list, with the metadata table.
persist_epic(c, merged_games, metadata) ==
    [c EXCEPT !.epic_owned = merged_games,
              !.epic_last_sync = Some("now"),
              !.epic_metadata = metadata]

\* AppState::new with no persisted file: the three adapters registered, on a
\* machine where one of the Steam and Epic clients is installed. The games of
\* the other platform are then owned but never found locally.
InitSync ==
    /\ phase = "run"
    /\ stores = StoreTypes
    /\ \E client \in {"Steam", "Epic"} : available = [a \in StoreTypes |-> a = client]
    /\ order \in Perms(StoreTypes)
    /\ games = <<>>
    /\ obs = NoObs
    /\ pc = [t \in Threads |-> "idle"]
    /\ all_games = [t \in Threads |-> <<>>]
    /\ lastWrite = <<>>
    /\ steam_creds = None
    /\ epic_creds = None
    /\ cache = EmptyCache
    /\ ExtInit

\* Every list a refresh_all can return in the current state.
RefreshResults ==
    { sort_by(collect(order, [a \in StoreTypes |->
                        CASE a = "Steam" -> o1 [] a = "Epic" -> o2 [] a = "Gog" -> o3])) :
        o1 \in ScanChoices("Steam"), o2 \in ScanChoices("Epic"), o3 \in ScanChoices("Gog") }

\* library.refresh_all() inside a command, returning `installed`: the library
\* mutex is held, the cache is replaced, the sorted list is the command's
\* installed_games.
RefreshedTo(installed) ==
    /\ games' = SwapCache(games, installed)
    /\ lastWrite' = installed

\* save_steam_credentials
SaveSteamCredentials ==
    /\ Ready
    /\ steam_creds' = Some("key")
    /\ obs' = [op |-> "save_steam_credentials", res |-> Ok("unit")]
    /\ UNCHANGED << extVars, libVars, concVars, epic_creds, cache >>

\* disconnect_steam: Storage::clear_steam_data
DisconnectSteam ==
    /\ Ready
    /\ steam_creds' = None
    /\ cache' = [cache EXCEPT !.steam_owned = <<>>, !.last_sync = None]
    /\ obs' = [op |-> "disconnect_steam", res |-> Ok("unit")]
    /\ UNCHANGED << extVars, libVars, concVars, epic_creds >>

\* exchange_epic_code
ExchangeEpicCode ==
    /\ Ready
    /\ \/ \E t \in Tokens :
            /\ epic_creds' = Some(t)
            /\ obs' = [op |-> "exchange_epic_code", res |-> Ok("name")]
       \/ /\ obs' = [op |-> "exchange_epic_code", res |-> Err("AuthRequired", "exchange")]
          /\ UNCHANGED epic_creds
    /\ UNCHANGED << extVars, libVars, concVars, steam_creds, cache >>

\* sync_steam_library
SyncSteamLibrary ==
    /\ Ready
    /\ \/ /\ steam_creds = None
          /\ obs' = [op |-> "sync_steam_library",
                     res |-> Err("String", "Steam credentials not set")]
          /\ UNCHANGED << extVars, libVars, concVars, syncVars >>
       \/ /\ steam_creds # None
          /\ \E fetched \in { f \in SteamFetchOutcomes : ~f.ok } :
               obs' = [op |-> "sync_steam_library", res |-> fetched]
          /\ UNCHANGED << extVars, libVars, concVars, syncVars >>
       \/ /\ steam_creds # None
          /\ \E fetched \in { f \in SteamFetchOutcomes : f.ok }, installed \in RefreshResults :
               LET merged == sync_merge("Steam", fetched.val, installed)
               IN  /\ RefreshedTo(installed)
                   /\ cache' = persist_steam(cache, merged)
                   /\ obs' = [op |-> "sync_steam_library", res |-> Ok(merged),
                              store |-> "Steam", owned |-> fetched.val,
                              installed |-> installed]
          /\ UNCHANGED << extVars, phase, stores, available, order, pc, all_games,
                          steam_creds, epic_creds >>

\* sync_epic_library
SyncEpicLibrary ==
    /\ Ready
    /\ \/ /\ epic_creds = None
          /\ obs' = [op |-> "sync_epic_library",
                     res |-> Err("String", "Epic credentials not set")]
          /\ UNCHANGED << extVars, libVars, concVars, syncVars >>
       \/ /\ epic_creds # None
          /\ \E valid \in { v \in TokenOutcomes(epic_creds[1]) : ~v.ok } :
               obs' = [op |-> "sync_epic_library", res |-> valid]
          /\ UNCHANGED << extVars, libVars, concVars, syncVars >>
       \/ /\ epic_creds # None
          /\ \E valid \in { v \in TokenOutcomes(epic_creds[1]) : v.ok } :
               \* refreshed credentials are saved when the access token changed
               /\ epic_creds' = IF valid.val # epic_creds[1] THEN Some(valid.val) ELSE epic_creds
               /\ \/ /\ \E fetched \in { f \in EpicFetchOutcomes : ~f.ok } :
                          obs' = [op |-> "sync_epic_library", res |-> fetched]
                     /\ UNCHANGED << extVars, libVars, concVars, steam_creds, cache >>
                  \/ /\ \E fetched \in { f \in EpicFetchOutcomes : f.ok },
                           installed \in RefreshResults :
                          LET merged == sync_merge("Epic", fetched.val, installed)
                          IN  /\ RefreshedTo(installed)
                              /\ cache' = persist_epic(cache, merged,
                                               { fetched.val[i].id : i \in 1..Len(fetched.val) })
                              /\ obs' = [op |-> "sync_epic_library", res |-> Ok(merged),
                                         store |-> "Epic", owned |-> fetched.val,
                                         installed |-> installed]
                     /\ UNCHANGED << extVars, phase, stores, available, order, pc, all_games,
                                     steam_creds >>

\* get_steam_games_cached
GetSteamGamesCached ==
    /\ Ready
    /\ \E installed \in RefreshResults :
         /\ RefreshedTo(installed)
         /\ obs' = [op |-> "get_steam_games_cached",
                    res |-> Ok(cached_result("Steam", cache.steam_owned, installed)),
                    store |-> "Steam", owned |-> cache.steam_owned, installed |-> installed]
    /\ UNCHANGED << extVars, phase, stores, available, order, pc, all_games, syncVars >>

\* get_epic_games_cached
GetEpicGamesCached ==
    /\ Ready
    /\ \E installed \in RefreshResults :
         /\ RefreshedTo(installed)
         /\ obs' = [op |-> "get_epic_games_cached",
                    res |-> Ok(cached_result("Epic", cache.epic_owned, installed)),
                    store |-> "Epic", owned |-> cache.epic_owned, installed |-> installed]
    /\ UNCHANGED << extVars, phase, stores, available, order, pc, all_games, syncVars >>

NextSync ==
    \/ SaveSteamCredentials
    \/ DisconnectSteam
    \/ ExchangeEpicCode
    \/ SyncSteamLibrary
    \/ SyncEpicLibrary
    \/ GetSteamGamesCached
    \/ GetEpicGamesCached
    \/ DropResult

SpecSync == InitSync /\ [][NextSync]_vars

(***************************************************************************)
(* Game::unique_key over arbitrary ids                                     *)
(***************************************************************************)

\* The longest id drawn.
MaxIdLen == 2

\* The characters ids are drawn from: a digit, the key separator, and one
\* letter in both cases.
IdChars == { "1", ":", "a", "A" }

Ids == ListsUpTo(IdChars, MaxIdLen)

\* Game::new(id, name, store) for every store and id.
KeyGames == { MkGame(id, s_Zelda, st, FALSE, None, None, None) : id \in Ids, st \in StoreTypes }

\* Two games, in `games`, whose keys are about to be taken.
InitKey ==
    /\ phase = "run"
    /\ stores = {}
    /\ available = [a \in StoreTypes |-> FALSE]
    /\ order = <<>>
    /\ \E g1, g2 \in KeyGames : games = << g1, g2 >>
    /\ obs = NoObs
    /\ pc = [t \in Threads |-> "idle"]
    /\ all_games = [t \in Threads |-> <<>>]
    /\ lastWrite = <<>>
    /\ steam_creds = None
    /\ epic_creds = None
    /\ cache = EmptyCache
    /\ ExtInit

\* g.unique_key() on both games.
UniqueKey ==
    /\ obs = NoObs
    /\ obs' = [op |-> "unique_key", keys |-> [i \in 1..Len(games) |-> unique_key(games[i])]]
    /\ UNCHANGED << extVars, libVars, concVars, syncVars >>

NextKey == UniqueKey

SpecKey == InitKey /\ [][NextKey]_vars

(***************************************************************************)
(* EpicApi: the token exchanges                                            *)
(***************************************************************************)

\* EpicCredentials: the fields the token logic reads and writes.
Creds(access_token, refresh_token, expires_at) ==
    [ access_token |-> access_token, refresh_token |-> refresh_token,
      expires_at |-> expires_at ]

\* ensure_valid_token refreshes unless more than this many seconds are left.
RefreshMargin == 300

\* How far around the refresh threshold the expiry times are drawn.
MaxSkew == 1

\* Clock readings: 0 is what unwrap_or(0) gives for a clock before the epoch.
Nows == { 0, 1000 }

\* Expiry times for a clock reading n: long expired, just expired, and the
\* seconds around n + RefreshMargin.
ExpiresAts(n) ==
    { 0, n } \cup { n + RefreshMargin + d : d \in (0 - MaxSkew)..MaxSkew }

RefreshTokens == { "refA", "refB" }

\* What the OAuth token endpoint can answer to one POST: the request does not
\* go through, a status that is not a success, a success whose body is not
\* the token JSON, or a token (refresh_token is optional in the body).
TokenResponses ==
    { [kind |-> "send_failed"],
      [kind |-> "status", status |-> 400],
      [kind |-> "status", status |-> 503],
      [kind |-> "bad_json", status |-> 200] }
    \cup
    { [kind |-> "token", status |-> 200, access_token |-> t, refresh_token |-> r,
       expires_in |-> e] :
        t \in Tokens, r \in { None } \cup { Some(x) : x \in RefreshTokens },
        e \in { 0, 7200 } }

\* Option<String>::unwrap_or_default
unwrap_or_default(o) == IF o = None THEN "" ELSE o[1]

\* The token endpoint's answer with a refused request reported as a network
\* failure.
oauth_result_network(resp, n, what) ==
    CASE resp.kind = "send_failed" -> Err("NetworkError", "send")
      [] resp.kind = "status" -> Err("NetworkError", what)
      [] resp.kind = "bad_json" -> Err("ParseError", "json")
      [] resp.kind = "token" ->
            Ok(Creds(resp.access_token, unwrap_or_default(resp.refresh_token),
                     n + resp.expires_in))

\* What exchange_code and refresh_token make of the endpoint's answer resp at
\* clock reading n; `what` is the text of the AuthRequired error.
oauth_result(resp, n, what) ==
    CASE resp.kind = "send_failed" -> Err("NetworkError", "send")
      [] resp.kind = "status" -> Err("AuthRequired", what)
      [] resp.kind = "bad_json" -> Err("ParseError", "json")
      [] resp.kind = "token" ->
            Ok(Creds(resp.access_token, unwrap_or_default(resp.refresh_token),
                     n + resp.expires_in))

\* EpicApi::exchange_code: one POST with the authorization code.
exchange_code(auth_code, resp, n) ==
    [ res |-> oauth_result(resp, n, "OAuth failed"),
      requests |-> << [grant |-> "authorization_code", code |-> auth_code] >> ]

\* EpicApi::refresh_token: one POST with the refresh token.
refresh_token(token, resp, n) ==
    [ res |-> oauth_result(resp, n, "Token refresh failed"),
      requests |-> << [grant |-> "refresh_token", refresh_token |-> token] >> ]

\* ensure_valid_token refreshing only once the expiry time has passed the margin.
ensure_valid_token_late(credentials, resp, n) ==
    IF credentials.expires_at >= n + RefreshMargin
    THEN [ res |-> Ok(credentials), requests |-> <<>> ]
    ELSE refresh_token(credentials.refresh_token, resp, n)

\* EpicApi::ensure_valid_token
ensure_valid_token(credentials, resp, n) ==
    IF credentials.expires_at > n + RefreshMargin
    THEN [ res |-> Ok(credentials), requests |-> <<>> ]
    ELSE refresh_token(credentials.refresh_token, resp, n)

\* Stored credentials and a clock reading.
InitToken ==
    /\ phase = "run"
    /\ stores = {}
    /\ available = [a \in StoreTypes |-> FALSE]
    /\ order = <<>>
    /\ games = <<>>
    /\ obs = NoObs
    /\ pc = [t \in Threads |-> "idle"]
    /\ all_games = [t \in Threads |-> <<>>]
    /\ lastWrite = <<>>
    /\ steam_creds = None
    /\ cache = EmptyCache
    /\ now \in Nows
    /\ \E t \in Tokens, r \in RefreshTokens \cup { "" }, e \in ExpiresAts(now) :
         epic_creds = Some(Creds(t, r, e))
    /\ cmd = NoCmd
    /\ held = NoLocks
    /\ net = <<>>
    /\ disk = <<>>

\* api.exchange_code(&auth_code), the endpoint answering resp.
ExchangeCode ==
    /\ obs = NoObs
    /\ \E resp \in TokenResponses :
         LET out == exchange_code("code", resp, now)
         IN  obs' = [op |-> "exchange_code", resp |-> resp,
                     res |-> out.res, requests |-> out.requests]
    /\ UNCHANGED << libVars, concVars, syncVars, extVars >>

\* api.ensure_valid_token(&credentials) on the stored credentials; resp is
\* what the endpoint answers if it is asked.
EnsureValidToken ==
    /\ obs = NoObs
    /\ \E resp \in TokenResponses :
         LET out == ensure_valid_token(epic_creds[1], resp, now)
         IN  obs' = [op |-> "ensure_valid_token", resp |-> resp,
                     credentials |-> epic_creds[1],
                     res |-> out.res, requests |-> out.requests]
    /\ UNCHANGED << libVars, concVars, syncVars, extVars >>

NextToken ==
    \/ ExchangeCode
    \/ EnsureValidToken
    \/ DropResult

SpecToken == InitToken /\ [][NextToken]_vars

(***************************************************************************)
(* The sync commands step by step, next to a catalog reader                *)
(***************************************************************************)

SyncOps == { "sync_steam_library", "sync_epic_library" }

\* MutexGuard dropped without releasing the mutex.
unlock_keep(h, m) == h

\* state.<m>.lock() by who, and the guard going out of scope.
lock(h, m, who) == [h EXCEPT ![m] = Some(who)]
unlock(h, m) == [h EXCEPT ![m] = None]

\* The positions of a sync command at which its spawn_blocking network call
\* is in flight.
NetworkSteps == { "ensure", "fetch" }

Platform(op) == IF op = "sync_steam_library" THEN "Steam" ELSE "Epic"

\* One machine as in InitSync, with any stored credentials, before a command.
InitCmd ==
    /\ phase = "run"
    /\ stores = StoreTypes
    /\ \E client \in {"Steam", "Epic"} : available = [a \in StoreTypes |-> a = client]
    /\ order = << "Steam", "Epic", "Gog" >>
    /\ games = <<>>
    /\ obs = NoObs
    /\ pc = [t \in Threads |-> "idle"]
    /\ all_games = [t \in Threads |-> <<>>]
    /\ lastWrite = <<>>
    /\ steam_creds \in { None, Some("key") }
    /\ now = 1000
    /\ epic_creds \in { None } \cup
         { Some(Creds(t, r, e)) : t \in Tokens, r \in RefreshTokens, e \in ExpiresAts(now) }
    /\ cache = EmptyCache
    /\ cmd = NoCmd
    /\ held = NoLocks
    /\ net = <<>>
    /\ disk = <<>>

\* The command returns res to its caller.
Return(res) == cmd' = [op |-> cmd.op, pc |-> "done", res |-> res]

\* A sync command is invoked.
StartSync(op) ==
    /\ cmd = NoCmd
    /\ cmd' = [op |-> op, pc |-> "start"]
    /\ UNCHANGED << libVars, obs, concVars, syncVars, now, held, net, disk >>

\* state.storage.lock(): before the credentials are loaded, before refreshed
\* credentials are saved, before the cache is written.
AcquireStorage ==
    /\ cmd.op \in SyncOps
    /\ cmd.pc \in { "start", "save_creds", "persist" }
    /\ held.storage = None
    /\ held' = lock(held, "storage", "sync")
    /\ cmd' = [cmd EXCEPT !.pc = CASE cmd.pc = "start" -> "creds_locked"
                                   [] cmd.pc = "save_creds" -> "save_locked"
                                   [] cmd.pc = "persist" -> "persist_locked"]
    /\ UNCHANGED << libVars, obs, concVars, syncVars, now, net, disk >>

\* Step 1 of both commands: load_credentials, the guard dropped at the end of
\* the block; without credentials the command returns.
LoadCreds ==
    /\ cmd.pc = "creds_locked"
    /\ held' = unlock(held, "storage")
    /\ LET stored == IF cmd.op = "sync_steam_library" THEN steam_creds ELSE epic_creds
       IN  IF stored = None
           THEN Return(Err("String", "credentials not set"))
           ELSE cmd' = [op |-> cmd.op,
                        pc |-> IF cmd.op = "sync_steam_library" THEN "fetch" ELSE "ensure",
                        creds |-> stored[1]]
    /\ UNCHANGED << libVars, obs, concVars, syncVars, now, net, disk >>

\* sync_epic_library: the spawn_blocking of ensure_valid_token comes back; the
\* credentials go on to be saved when the access token changed.
EnsureDone ==
    /\ cmd.pc = "ensure"
    /\ \E resp \in TokenResponses :
         LET out == ensure_valid_token(cmd.creds, resp, now)
         IN  /\ net' = net \o out.requests
             /\ IF ~out.res.ok THEN Return(out.res)
                ELSE cmd' = [op |-> cmd.op,
                             pc |-> IF out.res.val.access_token # cmd.creds.access_token
                                    THEN "save_creds" ELSE "fetch",
                             creds |-> cmd.creds,
                             valid_creds |-> out.res.val]
    /\ UNCHANGED << libVars, obs, concVars, syncVars, now, held, disk >>

\* sync_epic_library: stored_creds.epic = Some(valid_creds), save_credentials.
SaveCreds ==
    /\ cmd.pc = "save_locked"
    /\ epic_creds' = Some(cmd.valid_creds)
    /\ held' = unlock(held, "storage")
    /\ cmd' = [cmd EXCEPT !.pc = "fetch"]
    /\ UNCHANGED << libVars, obs, concVars, steam_creds, cache, now, net, disk >>

\* The spawn_blocking of get_owned_games / get_library comes back.
FetchDone ==
    /\ cmd.pc = "fetch"
    /\ net' = Append(net, [grant |-> "none", request |-> "owned_games",
                           platform |-> Platform(cmd.op)])
    /\ \E fetched \in IF cmd.op = "sync_steam_library"
                      THEN SteamFetchOutcomes ELSE EpicFetchOutcomes :
         IF ~fetched.ok THEN Return(fetched)
         ELSE cmd' = [op |-> cmd.op, pc |-> "refresh", owned_games |-> fetched.val]
    /\ UNCHANGED << libVars, obs, concVars, syncVars, now, held, disk >>

\* state.library.lock()
AcquireLibrary ==
    /\ cmd.pc = "refresh"
    /\ held.library = None
    /\ held' = lock(held, "library", "sync")
    /\ cmd' = [cmd EXCEPT !.pc = "refresh_locked"]
    /\ UNCHANGED << libVars, obs, concVars, syncVars, now, net, disk >>

\* library.refresh_all() under the library mutex, then the merge.
Refresh ==
    /\ cmd.pc = "refresh_locked"
    /\ \E installed \in RefreshResults :
         /\ RefreshedTo(installed)
         /\ cmd' = [op |-> cmd.op, pc |-> "persist",
                    merged_games |-> sync_merge(Platform(cmd.op), cmd.owned_games, installed),
                    owned_games |-> cmd.owned_games]
    /\ held' = unlock(held, "library")
    /\ UNCHANGED << phase, stores, available, order, obs, pc, all_games, syncVars,
                    now, net, disk >>

\* The cache is loaded, changed and saved under the storage mutex; the command
\* returns the merged list.
Persist ==
    /\ cmd.pc = "persist_locked"
    /\ cache' = IF cmd.op = "sync_steam_library"
                THEN persist_steam(cache, cmd.merged_games)
                ELSE persist_epic(cache, cmd.merged_games,
                                  { cmd.owned_games[i].id : i \in 1..Len(cmd.owned_games) })
    /\ held' = unlock(held, "storage")
    /\ Return(Ok(cmd.merged_games))
    /\ UNCHANGED << libVars, obs, concVars, steam_creds, epic_creds, now, net, disk >>

\* The get_games command of another caller: state.library.lock() ...
ReaderLock ==
    /\ obs = NoObs
    /\ held.library = None
    /\ held' = lock(held, "library", "reader")
    /\ UNCHANGED << libVars, obs, concVars, syncVars, now, cmd, net, disk >>

\* ... library.get_games(), and the guard is dropped; `during` is where the
\* sync command stood while the read was served.
ReaderRead ==
    /\ held.library = Some("reader")
    /\ obs' = [op |-> "get_games", res |-> games, scanned |-> {}, during |-> cmd.pc]
    /\ held' = unlock(held, "library")
    /\ UNCHANGED << libVars, concVars, syncVars, now, cmd, net, disk >>

NextCmd ==
    \/ \E op \in SyncOps : StartSync(op)
    \/ AcquireStorage
    \/ LoadCreds
    \/ EnsureDone
    \/ SaveCreds
    \/ FetchDone
    \/ AcquireLibrary
    \/ Refresh
    \/ Persist
    \/ ReaderLock
    \/ ReaderRead
    \/ DropResult

SpecCmd == InitCmd /\ [][NextCmd]_vars

(***************************************************************************)
(* EpicApi::get_library: the cursor loop over the library pages            *)
(***************************************************************************)

\* The server answers with a page without a cursor, or fails, at the latest
\* on request MaxPages.
MaxPages == 3

Cursors == { "c1", "c2" }

\* The catalog entry of an item id, as get_catalog_items turns it into a Game.
CatalogGame(id) == IF id = s_1 THEN RE1 ELSE REab

\* The records of one library page (all in one namespace).
PageRecords == { <<>>, << s_1 >>, << s_1, s_ab >> }

\* What the library endpoint can answer to one page request.
PageResponses ==
    { [kind |-> "send_failed"],
      [kind |-> "status", status |-> 401],
      [kind |-> "status", status |-> 500],
      [kind |-> "bad_json", status |-> 200] }
    \cup
    { [kind |-> "page", status |-> 200, records |-> r, next_cursor |-> c] :
        r \in PageRecords, c \in { None } \cup { Some(x) : x \in Cursors } }

\* What the catalog endpoint can answer to the bulk lookup of item_ids; the
\* values of the answered map come in any order.
CatalogResponses(item_ids) ==
    { [kind |-> "send_failed"],
      [kind |-> "status", status |-> 500],
      [kind |-> "bad_json", status |-> 200] }
    \cup
    { [kind |-> "catalog", status |-> 200, items |-> l] :
        l \in Perms({ CatalogGame(item_ids[i]) : i \in 1..Len(item_ids) }) }

\* get_catalog_items: no request for no ids; a non-success status is not a
\* failure.
get_catalog_items(item_ids, resp) ==
    IF item_ids = <<>> THEN Ok(<<>>)
    ELSE CASE resp.kind = "send_failed" -> Err("NetworkError", "send")
           [] resp.kind = "status" -> Ok(<<>>)
           [] resp.kind = "bad_json" -> Err("ParseError", "json")
           [] resp.kind = "catalog" -> Ok(resp.items)

\* The games of one page replacing the games of the pages before.
push_all_reset(games_so_far, catalog_results) == catalog_results

\* games.push(game) for each catalog result.
push_all(games_so_far, catalog_results) == games_so_far \o catalog_results

\* One turn of the loop of get_library with the cursor and the games so far:
\* the result when the loop is left, the new cursor and games when not.
library_page(cursor, games_so_far, metadata, resp, cat) ==
    CASE resp.kind = "send_failed" ->
           [left |-> TRUE, res |-> Err("NetworkError", "send")]
      [] resp.kind = "status" /\ resp.status = 401 ->
           [left |-> TRUE, res |-> Err("AuthRequired", "Epic token expired")]
      [] resp.kind = "status" /\ resp.status # 401 ->
           [left |-> TRUE, res |-> Err("NetworkError", "Library fetch failed")]
      [] resp.kind = "bad_json" ->
           [left |-> TRUE, res |-> Err("ParseError", "json")]
      [] resp.kind = "page" ->
           LET catalog_results == get_catalog_items(resp.records, cat)
               got == IF catalog_results.ok THEN catalog_results.val ELSE <<>>
               all == push_all(games_so_far, got)
               meta == metadata \cup { got[i].id : i \in 1..Len(got) }
           IN  IF resp.next_cursor = None
               THEN [left |-> TRUE, res |-> Ok([games |-> all, metadata |-> meta])]
               ELSE [left |-> FALSE, cursor |-> resp.next_cursor,
                     games |-> all, metadata |-> meta]

\* get_library has been called with valid credentials and is about to send
\* its first request.
InitLibrary ==
    /\ phase = "run"
    /\ stores = StoreTypes
    /\ available = [a \in StoreTypes |-> a = "Epic"]
    /\ order = << "Steam", "Epic", "Gog" >>
    /\ games = <<>>
    /\ obs = NoObs
    /\ pc = [t \in Threads |-> "idle"]
    /\ all_games = [t \in Threads |-> <<>>]
    /\ lastWrite = <<>>
    /\ steam_creds = None
    /\ now = 1000
    /\ \E t \in Tokens : epic_creds = Some(Creds(t, "refA", now + 7200))
    /\ cache = EmptyCache
    /\ cmd = [op |-> "get_library", pc |-> "request", cursor |-> None,
              games |-> <<>>, metadata |-> {}]
    /\ held = NoLocks
    /\ net = <<>>
    /\ disk = <<>>

\* One turn of the loop: the page request with the cursor, the catalog lookup
\* of its records, the next cursor.  net records each request with its answers.
FetchPage ==
    /\ cmd.op = "get_library"
    /\ cmd.pc = "request"
    /\ \E resp \in PageResponses :
         /\ (resp.kind = "page" /\ resp.next_cursor # None) => Len(net) + 1 < MaxPages
         /\ \E cat \in IF resp.kind = "page" /\ resp.records # <<>>
                       THEN CatalogResponses(resp.records)
                       ELSE { [kind |-> "none"] } :
              LET turn == library_page(cmd.cursor, cmd.games, cmd.metadata, resp, cat)
              IN  /\ net' = Append(net, [cursor |-> cmd.cursor,
                                         access_token |-> epic_creds[1].access_token,
                                         resp |-> resp, cat |-> cat])
                  /\ IF turn.left
                     THEN Return(turn.res)
                     ELSE cmd' = [op |-> cmd.op, pc |-> "request",
                                  cursor |-> turn.cursor, games |-> turn.games,
                                  metadata |-> turn.metadata]
    /\ UNCHANGED << libVars, obs, concVars, syncVars, now, held, disk >>

NextLibrary == FetchPage

SpecLibrary == InitLibrary /\ [][NextLibrary]_vars

\* The blocking request of a turn comes back: with an answer, or with the
\* failure of the transport's connect/read timeout.
SpecLibraryFair == SpecLibrary /\ WF_vars(FetchPage)

(***************************************************************************)
(* The directory scans of the Steam and the Epic adapter                   *)
(***************************************************************************)

MaxFiles == 3

\* A file of steamapps/: whether its name is appmanifest_*.acf, whether it can
\* be read, and the values parse_vdf_to_map finds under the keys the parser
\* looks at (None: the key is not in the file); installdir stands for the
\* joined common/<installdir> path and is None as well when that does not exist.
AcfFile(manifest, readable, appid, name, installdir, sizeondisk) ==
    [ manifest |-> manifest, readable |-> readable, appid |-> appid, name |-> name,
      installdir |-> installdir, sizeondisk |-> sizeondisk ]

SteamFiles ==
    { AcfFile(TRUE, TRUE, Some(s_1), Some(s_Zelda), Some("/lib1/common/zelda"), Some(5)),
      AcfFile(TRUE, TRUE, Some(s_2), Some(s_Apex), None, None),
      AcfFile(TRUE, TRUE, None, Some(s_Apex), Some("/lib1/common/apex"), Some(7)),
      AcfFile(TRUE, TRUE, Some(s_3), None, None, Some(7)),
      AcfFile(TRUE, FALSE, Some(s_3), Some(s_App3), None, None),
      AcfFile(FALSE, TRUE, Some(s_3), Some(s_App3), None, None) }

\* A file of the Epic manifests directory: whether its name ends in .item,
\* whether it can be read and is JSON, its keys (None: absent), and whether
\* the install location and the executable under it exist.
ItemFile(manifest, readable, json, app_name, display_name, install_location, launch_executable, incomplete, install_size, location_exists, exe_exists) ==
    [ manifest |-> manifest, readable |-> readable, json |-> json,
      AppName |-> app_name, DisplayName |-> display_name,
      InstallLocation |-> install_location, LaunchExecutable |-> launch_executable,
      bIsIncompleteInstall |-> incomplete, InstallSize |-> install_size,
      location_exists |-> location_exists, exe_exists |-> exe_exists ]

EpicFiles ==
    { ItemFile(TRUE, TRUE, TRUE, Some(s_1), Some(s_apex), Some("/epic/one"),
               Some("/epic/one/run"), FALSE, Some(3), TRUE, TRUE),
      ItemFile(TRUE, TRUE, TRUE, Some(s_ab), Some(s_Zelda), Some("/epic/ab"),
               Some("/epic/ab/run"), FALSE, None, FALSE, FALSE),
      ItemFile(TRUE, TRUE, FALSE, None, None, None, None, FALSE, None, FALSE, FALSE),
      ItemFile(TRUE, TRUE, TRUE, Some(s_2), None, Some("/epic/two"),
               Some("/epic/two/run"), FALSE, None, TRUE, TRUE),
      ItemFile(TRUE, TRUE, TRUE, Some(s_2), Some(s_Apex), Some("/epic/two"),
               Some("/epic/two/run"), TRUE, Some(3), TRUE, TRUE),
      ItemFile(FALSE, TRUE, TRUE, Some(s_2), Some(s_Apex), Some("/epic/two"),
               Some("/epic/two/run"), FALSE, None, TRUE, TRUE) }

\* parse_acf_file
parse_acf_file(f) ==
    IF ~f.readable THEN Err("IoError", "read")
    ELSE IF f.appid = None THEN Err("ParseError", "Missing appid in manifest")
    ELSE IF f.name = None THEN Err("ParseError", "Missing name in manifest")
    ELSE Ok(MkGame(f.appid[1], f.name[1], "Steam", TRUE, f.installdir, None, f.sizeondisk))

\* parse_manifest_file
parse_manifest_file(f) ==
    IF ~f.readable THEN Err("IoError", "read")
    ELSE IF ~f.json THEN Err("JsonError", "syntax")
    ELSE IF None \in { f.AppName, f.DisplayName, f.InstallLocation, f.LaunchExecutable }
         THEN Err("JsonError", "missing field")
    ELSE IF f.bIsIncompleteInstall
         THEN Err("ParseError", "Game installation is incomplete")
    ELSE Ok(MkGame(f.AppName[1], f.DisplayName[1], "Epic", TRUE,
                   f.InstallLocation,
                   IF f.location_exists /\ f.exe_exists THEN f.LaunchExecutable ELSE None,
                   f.InstallSize))

parse_file(store, f) == IF store = "Steam" THEN parse_acf_file(f) ELSE parse_manifest_file(f)

\* The loop over the directory entries giving up at the first manifest that
\* does not parse.
RECURSIVE scan_entries_abort(_, _)
scan_entries_abort(store, entries) ==
    IF entries = <<>> THEN <<>>
    ELSE IF Head(entries).manifest /\ ~parse_file(store, Head(entries)).ok THEN <<>>
    ELSE (IF Head(entries).manifest THEN << parse_file(store, Head(entries)).val >> ELSE <<>>)
         \o scan_entries_abort(store, Tail(entries))

\* The loop over the directory entries of both scans: a file with a manifest
\* name is parsed, its game pushed when the parse is Ok.
RECURSIVE scan_entries(_, _)
scan_entries(store, entries) ==
    IF entries = <<>> THEN <<>>
    ELSE (IF Head(entries).manifest /\ parse_file(store, Head(entries)).ok
          THEN << parse_file(store, Head(entries)).val >> ELSE <<>>)
         \o scan_entries(store, Tail(entries))

\* SteamStore::scan_installed_games / EpicStore::scan_installed_games over the
\* directory d: root is whether the client's path is known, vdf the state of
\* libraryfolders.vdf (Steam), dir whether the manifests directory exists.
scan_installed_games(d) ==
    IF ~d.root THEN Ok(<<>>)
    ELSE IF d.store = "Steam" /\ d.vdf = "unreadable" THEN Err("IoError", "read")
    ELSE IF ~d.dir THEN Ok(<<>>)
    ELSE Ok(scan_entries(d.store, d.entries))

\* Any directory of at most MaxFiles files.
InitScan ==
    /\ phase = "run"
    /\ stores = StoreTypes
    /\ available = [a \in StoreTypes |-> TRUE]
    /\ order = << "Steam", "Epic", "Gog" >>
    /\ games = <<>>
    /\ obs = NoObs
    /\ pc = [t \in Threads |-> "idle"]
    /\ all_games = [t \in Threads |-> <<>>]
    /\ lastWrite = <<>>
    /\ steam_creds = None
    /\ epic_creds = None
    /\ cache = EmptyCache
    /\ now = 0
    /\ cmd = NoCmd
    /\ held = NoLocks
    /\ net = <<>>
    /\ \E store \in { "Steam", "Epic" }, root \in BOOLEAN, dir \in BOOLEAN :
       \E vdf \in IF store = "Steam" THEN { "absent", "folders", "unreadable" } ELSE { "none" } :
       \E entries \in ListsUpTo(IF store = "Steam" THEN SteamFiles ELSE EpicFiles, MaxFiles) :
         /\ (~root \/ ~dir) => entries = <<>>
         /\ ~root => (dir = FALSE /\ vdf \in { "absent", "none" })
         /\ disk = [store |-> store, root |-> root, vdf |-> vdf, dir |-> dir,
                    entries |-> entries]

\* scan_installed_games of the adapter whose directory disk is.
ScanInstalledGames ==
    /\ obs = NoObs
    /\ disk # <<>>
    /\ obs' = [op |-> "scan_installed_games", res |-> scan_installed_games(disk)]
    /\ UNCHANGED << libVars, concVars, syncVars, extVars >>

NextScan ==
    \/ ScanInstalledGames
    \/ DropResult

SpecScan == InitScan /\ [][NextScan]_vars

(***************************************************************************)
(* The GOG adapter: the queries on the Galaxy database                     *)
(***************************************************************************)

MaxRows == 2

s_gog_ == << "g", "o", "g", "_" >>
s_GOGGame == << "G", "O", "G", " ", "G", "a", "m", "e", " " >>

\* str::strip_prefix
strip_prefix(s, prefix) ==
    IF starts_with(s, prefix) THEN Some(SubSeq(s, Len(prefix) + 1, Len(s))) ELSE None

\* The LIKE operator of SQLite: '%' matches any run of characters, '_' any
\* one character, every other character itself without regard to ASCII case.
RECURSIVE sql_like(_, _)
sql_like(pattern, s) ==
    IF pattern = <<>> THEN s = <<>>
    ELSE IF Head(pattern) = "%"
         THEN \E k \in 0..Len(s) : sql_like(Tail(pattern), SubSeq(s, k + 1, Len(s)))
    ELSE IF s = <<>> THEN FALSE
    ELSE IF Head(pattern) = "_" THEN sql_like(Tail(pattern), Tail(s))
    ELSE /\ LowerChar(Head(pattern)) = LowerChar(Head(s))
         /\ sql_like(Tail(pattern), Tail(s))

\* A table of the database: not there, there but the query on it fails, or
\* there with rows.
NoTable == [state |-> "missing", rows |-> <<>>]
BadTable == [state |-> "broken", rows |-> <<>>]
Table(rows) == [state |-> "rows", rows |-> rows]

\* The releaseKey values of LibraryReleases rows: GOG's namespace, two keys
\* that are not in it but start with the letters g, o, g, and Steam's.
ReleaseKeys ==
    { << "g", "o", "g", "_", "1" >>, << "g", "o", "g", "_", "2" >>,
      << "g", "o", "g", "x", "1" >>, << "G", "O", "G", "_", "2" >>,
      << "s", "t", "e", "a", "m", "_", "1" >> }

\* LibraryReleases rows: a key and a title; one row with a NULL title.
ReleaseRows ==
    { [releaseKey |-> k, title |-> Some(s_Zelda)] : k \in ReleaseKeys }
    \cup { [releaseKey |-> << "g", "o", "g", "_", "1" >>, title |-> None] }

\* The first row of rows satisfying Test, None when there is none.
first_row(rows, Test(_)) ==
    IF \E i \in 1..Len(rows) : Test(rows[i])
    THEN Some(rows[CHOOSE i \in 1..Len(rows) :
                     Test(rows[i]) /\ \A j \in 1..(i - 1) : ~Test(rows[j])])
    ELSE None

\* get_game_title: the title piece of GamePieces, else the title of the
\* LibraryReleases row, under the key "gog_" + product id.
get_game_title(db, product_id) ==
    LET key == s_gog_ \o product_id
        piece == first_row(db.GamePieces.rows, LAMBDA r : r.releaseKey = key)
        release == first_row(db.LibraryReleases.rows,
                             LAMBDA r : r.releaseKey = key /\ r.title # None)
    IN  IF piece # None THEN Some(piece[1].value)
        ELSE IF release # None THEN release[1].title
        ELSE None

\* get_install_path, with its errors already turned into None by the caller.
get_install_path(db, product_id) ==
    LET row == first_row(db.ProductConfiguration.rows, LAMBDA r : r.productId = product_id)
    IN  IF row = None THEN None ELSE Some(row[1].installPath)

\* get_game_details
get_game_details(db, product_id) ==
    LET title == get_game_title(db, product_id)
    IN  MkGame(product_id, IF title = None THEN s_GOGGame \o product_id ELSE title[1],
               "Gog", TRUE, get_install_path(db, product_id), None, None)

\* query_installed_base_products
query_installed_base_products(db) ==
    CASE db.InstalledBaseProducts.state = "missing" -> Ok(<<>>)
      [] db.InstalledBaseProducts.state = "broken" -> Err("DatabaseError", "prepare")
      [] OTHER ->
           Ok([i \in 1..Len(db.InstalledBaseProducts.rows) |->
                 get_game_details(db, db.InstalledBaseProducts.rows[i])])

\* query_library_releases: the rows the LIKE 'gog_%' of the statement lets
\* through and whose columns can be read, the id by strip_prefix with the
\* whole key as its default.
query_library_releases(db) ==
    CASE db.LibraryReleases.state = "missing" -> Ok(<<>>)
      [] db.LibraryReleases.state = "broken" -> Err("DatabaseError", "prepare")
      [] OTHER ->
           LET rows == SelectSeq(db.LibraryReleases.rows,
                                 LAMBDA r : /\ sql_like(s_gog_ \o << "%" >>, r.releaseKey)
                                            /\ r.title # None)
           IN  Ok([i \in 1..Len(rows) |->
                     LET stripped == strip_prefix(rows[i].releaseKey, s_gog_)
                     IN  MkGame(IF stripped = None THEN rows[i].releaseKey ELSE stripped[1],
                                rows[i].title[1], "Gog", TRUE, None, None, None)])

\* The two strategies added up.
query_installed_games_both(db) ==
    LET primary == query_installed_base_products(db)
        fallback == query_library_releases(db)
    IN  Ok((IF primary.ok THEN primary.val ELSE <<>>)
           \o (IF fallback.ok THEN fallback.val ELSE <<>>))

\* query_installed_games on a database that opens.
query_installed_games(db) ==
    LET primary == query_installed_base_products(db)
        fallback == query_library_releases(db)
        found == IF primary.ok THEN primary.val ELSE <<>>
    IN  IF found # <<>> THEN Ok(found)
        ELSE Ok(IF fallback.ok THEN fallback.val ELSE <<>>)

\* Any Galaxy database of at most MaxRows rows per table.
InitGog ==
    /\ phase = "run"
    /\ stores = StoreTypes
    /\ available = [a \in StoreTypes |-> a = "Gog"]
    /\ order = << "Steam", "Epic", "Gog" >>
    /\ games = <<>>
    /\ obs = NoObs
    /\ pc = [t \in Threads |-> "idle"]
    /\ all_games = [t \in Threads |-> <<>>]
    /\ lastWrite = <<>>
    /\ steam_creds = None
    /\ epic_creds = None
    /\ cache = EmptyCache
    /\ now = 0
    /\ cmd = NoCmd
    /\ held = NoLocks
    /\ net = <<>>
    /\ \E products \in { NoTable, BadTable } \cup
                       { Table(r) : r \in ListsUpTo({ s_1, s_2 }, MaxRows) },
          releases \in { NoTable, BadTable } \cup
                       { Table(r) : r \in ListsUpTo(ReleaseRows, MaxRows) },
          pieces \in { NoTable,
                       Table(<< [releaseKey |-> s_gog_ \o s_1, value |-> s_Apex] >>) },
          config \in { NoTable,
                       Table(<< [productId |-> s_1, installPath |-> "/gog/one"] >>) } :
         disk = [InstalledBaseProducts |-> products, LibraryReleases |-> releases,
                 GamePieces |-> pieces, ProductConfiguration |-> config]

\* query_installed_games, with what the fallback query alone gives.
QueryInstalledGames ==
    /\ obs = NoObs
    /\ obs' = [op |-> "query_installed_games", res |-> query_installed_games(disk),
               releases |-> query_library_releases(disk)]
    /\ UNCHANGED << libVars, concVars, syncVars, extVars >>

NextGog ==
    \/ QueryInstalledGames
    \/ DropResult

SpecGog == InitGog /\ [][NextGog]_vars

(***************************************************************************)
(* The Steam adapter: the library folders of a scan                        *)
(***************************************************************************)

MaxLines == 3

\* A trimmed line of libraryfolders.vdf: its first quoted text, its second
\* quoted text when it has one, and whether that, taken as a folder, exists.
VdfLine(key, value, exists) == [key |-> key, value |-> value, exists |-> exists]

VdfLines ==
    { VdfLine("path", Some("/lib1"), TRUE),
      VdfLine("path", Some("/lib2"), TRUE),
      VdfLine("path", Some("/gone"), FALSE),
      VdfLine("path", None, FALSE),
      VdfLine("label", Some("/lib3"), TRUE) }

\* The descriptor: not there, there but read_to_string fails on it (it cannot
\* be read, or is not UTF-8), or its lines.
NoVdf == [state |-> "absent", lines |-> <<>>]
BadVdf == [state |-> "unreadable", lines |-> <<>>]
Vdf(lines) == [state |-> "lines", lines |-> lines]

\* extract_quoted_value(line, "path") on a line that starts with "path"
extract_quoted_value(line) == line.value

\* parse_library_folders with steam_root the parent of the parent of the file
parse_library_folders(vdf, steam_root) ==
    IF vdf.state = "unreadable" THEN Err("IoError", "read")
    ELSE LET found == SelectSeq(vdf.lines,
                                LAMBDA l : /\ l.key = "path"
                                           /\ extract_quoted_value(l) # None
                                           /\ l.exists)
             folders == [i \in 1..Len(found) |-> extract_quoted_value(found[i])[1]]
         IN  Ok(IF folders = <<>> THEN << steam_root >> ELSE folders)

\* The library_folders of SteamStore::scan_installed_games: None when the scan
\* returns no games without it.
library_folders(steam_path, vdf) ==
    IF steam_path = None THEN Ok(None)
    ELSE IF vdf.state # "absent"
         THEN LET parsed == parse_library_folders(vdf, steam_path[1])
              IN  IF parsed.ok THEN Ok(Some(parsed.val)) ELSE parsed
    ELSE Ok(Some(<< steam_path[1] >>))

\* Any descriptor of at most MaxLines lines, next to a client root or not.
InitFolders ==
    /\ phase = "run"
    /\ stores = StoreTypes
    /\ available = [a \in StoreTypes |-> a = "Steam"]
    /\ order = << "Steam", "Epic", "Gog" >>
    /\ games = <<>>
    /\ obs = NoObs
    /\ pc = [t \in Threads |-> "idle"]
    /\ all_games = [t \in Threads |-> <<>>]
    /\ lastWrite = <<>>
    /\ steam_creds = None
    /\ epic_creds = None
    /\ cache = EmptyCache
    /\ now = 0
    /\ cmd = NoCmd
    /\ held = NoLocks
    /\ net = <<>>
    /\ \E steam_path \in { None, Some("/steam") },
          vdf \in { NoVdf, BadVdf } \cup { Vdf(l) : l \in ListsUpTo(VdfLines, MaxLines) } :
         /\ steam_path = None => vdf = NoVdf
         /\ disk = [steam_path |-> steam_path, vdf |-> vdf]

\* The first part of scan_installed_games: the folders it is going to read.
LibraryFolders ==
    /\ obs = NoObs
    /\ obs' = [op |-> "library_folders", res |-> library_folders(disk.steam_path, disk.vdf)]
    /\ UNCHANGED << libVars, concVars, syncVars, extVars >>

NextFolders ==
    \/ LibraryFolders
    \/ DropResult

SpecFolders == InitFolders /\ [][NextFolders]_vars

(***************************************************************************)
(* Storage: the four persisted files                                       *)
(***************************************************************************)

\* A file of the data directory: not there, there with text that does not
\* deserialize, or there with a value.
Absent == [state |-> "absent"]
Corrupt == [state |-> "corrupt"]
File(v) == [state |-> "file", content |-> v]

\* The Default of each persisted type.
DefaultCredentials == [steam |-> None, epic |-> None]
DefaultPlayHistory == [games |-> <<>>]
DefaultSettings == [launch_on_startup |-> FALSE, launch_fullscreen |-> FALSE]

\* A load that takes a missing file for a failure.
load_file_strict(f, default) ==
    CASE f.state = "absent" -> Err("ConfigError", "Failed to read")
      [] f.state = "corrupt" -> Err("ParseError", "Failed to parse")
      [] f.state = "file" -> Ok(f.content)

\* The body shared by load_credentials, load_games_cache, load_play_history
\* and load_settings: the default when the path does not exist, else the
\* deserialized content.
load_file(f, default) ==
    CASE f.state = "absent" -> Ok(default)
      [] f.state = "corrupt" -> Err("ParseError", "Failed to parse")
      [] f.state = "file" -> Ok(f.content)

load_credentials(d) == load_file(d.credentials, DefaultCredentials)
load_games_cache(d) == load_file(d.games_cache, EmptyCache)
load_play_history(d) == load_file(d.play_history, DefaultPlayHistory)
load_settings(d) == load_file(d.settings, DefaultSettings)

\* The commands and Storage methods that read a file and write it back; each
\* gives the Result and the files afterwards.

\* save_steam_credentials
save_steam_credentials(d, key) ==
    LET creds == load_credentials(d)
    IN  IF ~creds.ok THEN [res |-> creds, disk |-> d]
        ELSE [res |-> Ok("unit"),
              disk |-> [d EXCEPT !.credentials = File([creds.val EXCEPT !.steam = Some(key)])]]

\* The last block of sync_steam_library
persist_sync(d, merged_games) ==
    LET c == load_games_cache(d)
    IN  IF ~c.ok THEN [res |-> c, disk |-> d]
        ELSE [res |-> Ok(merged_games),
              disk |-> [d EXCEPT !.games_cache = File(persist_steam(c.val, merged_games))]]

\* history.games.entry(game_key).or_default().last_played = Some(now)
touch_entry(history, game_key, t) ==
    [games |-> [k \in DOMAIN history.games \cup { game_key } |->
                  IF k = game_key
                  THEN [last_played |-> Some(t),
                        installed_at |-> IF k \in DOMAIN history.games
                                         THEN history.games[k].installed_at ELSE None]
                  ELSE history.games[k]]]

\* Storage::record_game_launch
record_game_launch(d, game_key, t) ==
    LET history == load_play_history(d)
    IN  IF ~history.ok THEN [res |-> history, disk |-> d]
        ELSE [res |-> Ok("unit"),
              disk |-> [d EXCEPT !.play_history = File(touch_entry(history.val, game_key, t))]]

\* Storage::clear_steam_data: the credentials are rewritten before the cache
\* is loaded.
clear_steam_data(d) ==
    LET creds == load_credentials(d)
    IN  IF ~creds.ok THEN [res |-> creds, disk |-> d]
        ELSE LET d1 == [d EXCEPT !.credentials = File([creds.val EXCEPT !.steam = None])]
                 c == load_games_cache(d1)
             IN  IF ~c.ok THEN [res |-> c, disk |-> d1]
                 ELSE [res |-> Ok("unit"),
                       disk |-> [d1 EXCEPT !.games_cache =
                                   File([c.val EXCEPT !.steam_owned = <<>>,
                                                      !.last_sync = None])]]

\* The data directory after Storage::new, each file missing, unparsable or
\* holding its default.
InitStorage ==
    /\ phase = "run"
    /\ stores = StoreTypes
    /\ available = [a \in StoreTypes |-> a = "Steam"]
    /\ order = << "Steam", "Epic", "Gog" >>
    /\ games = <<>>
    /\ obs = NoObs
    /\ pc = [t \in Threads |-> "idle"]
    /\ all_games = [t \in Threads |-> <<>>]
    /\ lastWrite = <<>>
    /\ steam_creds = None
    /\ epic_creds = None
    /\ cache = EmptyCache
    /\ now = 1000
    /\ cmd = NoCmd
    /\ held = NoLocks
    /\ net = <<>>
    /\ \E c \in { Absent, Corrupt, File(DefaultCredentials) },
          g \in { Absent, Corrupt, File(EmptyCache) },
          h \in { Absent, Corrupt, File(DefaultPlayHistory) },
          t \in { Absent, Corrupt, File(DefaultSettings) } :
         disk = [credentials |-> c, games_cache |-> g, play_history |-> h, settings |-> t]

\* One of the four loads; before is the data directory the call found.
LoadFile ==
    /\ obs = NoObs
    /\ \E which \in { "load_credentials", "load_games_cache", "load_play_history",
                      "load_settings" } :
         obs' = [op |-> which, before |-> disk,
                 res |-> CASE which = "load_credentials" -> load_credentials(disk)
                           [] which = "load_games_cache" -> load_games_cache(disk)
                           [] which = "load_play_history" -> load_play_history(disk)
                           [] which = "load_settings" -> load_settings(disk)]
    /\ UNCHANGED << libVars, concVars, syncVars, extVars >>

\* One of the read-then-rewrite operations.
RewriteFile ==
    /\ obs = NoObs
    /\ \E which \in { "save_steam_credentials", "persist_sync", "record_game_launch",
                      "clear_steam_data" } :
         LET out == CASE which = "save_steam_credentials" -> save_steam_credentials(disk, "key")
                      [] which = "persist_sync" -> persist_sync(disk, << RS1 >>)
                      [] which = "record_game_launch" ->
                           record_game_launch(disk, unique_key(RS1), now)
                      [] which = "clear_steam_data" -> clear_steam_data(disk)
         IN  /\ obs' = [op |-> which, before |-> disk, res |-> out.res]
             /\ disk' = out.disk
    /\ UNCHANGED << libVars, concVars, syncVars, now, cmd, held, net >>

NextStorage ==
    \/ LoadFile
    \/ RewriteFile
    \/ DropResult

SpecStorage == InitStorage /\ [][NextStorage]_vars

(***************************************************************************)
(* SteamPaths::detect_steam_id                                             *)
(***************************************************************************)

\* A trimmed line of config/loginusers.vdf: a quoted text alone on its line
\* (id: the text, digits: whether it is 17 ASCII digits), a MostRecent line
\* with its value, or anything else.
LoginLines ==
    { [kind |-> "quoted", id |-> "76561198000000001", digits |-> TRUE],
      [kind |-> "quoted", id |-> "76561198000000002", digits |-> TRUE],
      [kind |-> "quoted", id |-> "7656119800000003", digits |-> FALSE],
      [kind |-> "MostRecent", value |-> "1"],
      [kind |-> "MostRecent", value |-> "0"],
      [kind |-> "other"] }

\* The loop of detect_steam_id over the lines, from the two ids so far.
RECURSIVE scan_login(_, _, _)
scan_login(lines, current_id, most_recent_id) ==
    IF lines = <<>> THEN [current_id |-> current_id, most_recent_id |-> most_recent_id]
    ELSE LET l == Head(lines)
             cur == IF l.kind = "quoted" /\ l.digits THEN Some(l.id) ELSE current_id
             rec == IF l.kind = "MostRecent" /\ l.value = "1" /\ cur # None
                    THEN cur ELSE most_recent_id
         IN  scan_login(Tail(lines), cur, rec)

\* Option::or
or(a, b) == IF a # None THEN a ELSE b

\* detect_steam_id
detect_steam_id(steam_path, file) ==
    IF steam_path = None THEN None
    ELSE IF file.state # "file" THEN None
    ELSE LET found == scan_login(file.content, None, None)
         IN  or(found.most_recent_id, found.current_id)

\* Any login file of at most MaxLines lines, next to a client root or not.
InitLogin ==
    /\ phase = "run"
    /\ stores = StoreTypes
    /\ available = [a \in StoreTypes |-> a = "Steam"]
    /\ order = << "Steam", "Epic", "Gog" >>
    /\ games = <<>>
    /\ obs = NoObs
    /\ pc = [t \in Threads |-> "idle"]
    /\ all_games = [t \in Threads |-> <<>>]
    /\ lastWrite = <<>>
    /\ steam_creds = None
    /\ epic_creds = None
    /\ cache = EmptyCache
    /\ now = 0
    /\ cmd = NoCmd
    /\ held = NoLocks
    /\ net = <<>>
    /\ \E steam_path \in { None, Some("/steam") },
          file \in { Absent, Corrupt } \cup { File(l) : l \in ListsUpTo(LoginLines, MaxLines) } :
         /\ steam_path = None => file = Absent
         /\ disk = [steam_path |-> steam_path, loginusers |-> file]

DetectSteamId ==
    /\ obs = NoObs
    /\ obs' = [op |-> "detect_steam_id", res |-> detect_steam_id(disk.steam_path, disk.loginusers)]
    /\ UNCHANGED << libVars, concVars, syncVars, extVars >>

NextLogin ==
    \/ DetectSteamId
    \/ DropResult

SpecLogin == InitLogin /\ [][NextLogin]_vars

(***************************************************************************)
(* From an adapter's scan to the launch of a cached game                   *)
(***************************************************************************)

\* What one adapter reads: a manifest directory of the Steam or the Epic
\* client, or the Galaxy database.
AdapterInputs ==
    { [store |-> st, root |-> TRUE, vdf |-> IF st = "Steam" THEN "absent" ELSE "none",
       dir |-> TRUE, entries |-> e] :
        st \in { "Steam" }, e \in ListsUpTo(SteamFiles, MaxFiles) }
    \cup
    { [store |-> st, root |-> TRUE, vdf |-> "none", dir |-> TRUE, entries |-> e] :
        st \in { "Epic" }, e \in ListsUpTo(EpicFiles, MaxFiles) }
    \cup
    { [store |-> "Gog",
       db |-> [InstalledBaseProducts |-> products, LibraryReleases |-> releases,
               GamePieces |-> NoTable, ProductConfiguration |-> NoTable]] :
        products \in { NoTable } \cup { Table(r) : r \in ListsUpTo({ s_1, s_2 }, MaxRows) },
        releases \in { NoTable } \cup { Table(r) : r \in ListsUpTo(ReleaseRows, MaxRows) } }

\* GameStore::get_installed_games of the adapter reading d.
adapter_get_installed_games(d) ==
    IF d.store = "Gog" THEN query_installed_games(d.db) ELSE scan_installed_games(d)

\* AppState::new: the three adapters registered; one of them has something
\* to read.
InitLaunch ==
    /\ phase = "run"
    /\ stores = StoreTypes
    /\ \E d \in AdapterInputs :
         /\ disk = d
         /\ available = [a \in StoreTypes |-> a = d.store]
    /\ order = << "Steam", "Epic", "Gog" >>
    /\ games = <<>>
    /\ obs = NoObs
    /\ pc = [t \in Threads |-> "idle"]
    /\ all_games = [t \in Threads |-> <<>>]
    /\ lastWrite = <<>>
    /\ steam_creds = None
    /\ epic_creds = None
    /\ cache = EmptyCache
    /\ now = 0
    /\ cmd = NoCmd
    /\ held = NoLocks
    /\ net = <<>>

\* refresh_all with the games of the adapter that has something to read.
RefreshFromAdapter ==
    /\ Ready
    /\ LET scanned == adapter_get_installed_games(disk)
           sorted == sort_by(IF scanned.ok THEN scanned.val ELSE <<>>)
       IN  /\ games' = SwapCache(games, sorted)
           /\ lastWrite' = sorted
           /\ obs' = [op |-> "refresh_all", res |-> Ok(sorted), scanned |-> { disk.store }]
    /\ UNCHANGED << extVars, phase, stores, available, order, pc, all_games, syncVars >>

\* launch_game with the unique key of a cached game.
LaunchCached ==
    /\ Ready
    /\ \E i \in 1..Len(games), r \in LaunchOutcomes :
         LET out == launch_game(stores, unique_key(games[i]), r)
         IN  obs' = [op |-> "launch_game", key |-> unique_key(games[i]), res |-> out.res,
                     calls |-> out.calls, adapterResult |-> r, game |-> games[i]]
    /\ UNCHANGED << extVars, libVars, concVars, syncVars >>

NextLaunch ==
    \/ RefreshFromAdapter
    \/ LaunchCached
    \/ DropResult

SpecLaunch == InitLaunch /\ [][NextLaunch]_vars

(***************************************************************************)
(* The commands of concurrent callers, lock by lock                        *)
(***************************************************************************)

\* The callers whose commands run at the same time.
Callers == { "c1", "c2" }

Commands ==
    { "get_games", "find_game", "get_installed_games", "launch_game",
      "save_steam_credentials", "sync_steam_library", "sync_epic_library",
      "get_steam_games_cached", "get_epic_games_cached", "disconnect_steam" }

LibraryReads == { "get_games", "find_game", "get_installed_games" }
StorageWrites == { "save_steam_credentials", "disconnect_steam" }
CachedCmds == { "get_steam_games_cached", "get_epic_games_cached" }

\* A caller between commands. before_disconnect marks a sync_steam_library
\* that was under way when a disconnect_steam returned.
Idle == [op |-> "none", pc |-> "idle", before_disconnect |-> FALSE]

\* The record c with the fields of r set.
With(c, r) == [k \in DOMAIN c \cup DOMAIN r |-> IF k \in DOMAIN r THEN r[k] ELSE c[k]]

\* Mutex::lock succeeding at once whether the mutex is held or not.
can_lock_always(h, m) == TRUE

\* Mutex::lock returns when nobody holds the mutex.
can_lock(h, m) == h[m] = None

\* The storage guard of get_*_games_cached living on to the end of the command.
keep_storage_guard(h) == h

\* The storage guard of get_*_games_cached dropped at the end of its block.
drop_storage_guard(h) == unlock(h, "storage")

\* Every guard of caller p dropped: the command returns.
drop_guards(h, p) == [m \in DOMAIN h |-> IF h[m] = Some(p) THEN None ELSE h[m]]

\* The mutex the command c locks next, "none" when its next step is not a lock.
WantedLock(c) ==
    CASE c.pc = "start" /\ c.op \in LibraryReads \cup { "launch_game" } -> "library"
      [] c.pc = "start" /\ c.op \notin LibraryReads \cup { "launch_game" } -> "storage"
      [] c.pc = "has_lib" -> "storage"
      [] c.pc = "refresh" -> "library"
      [] c.pc \in { "save_creds", "persist" } -> "storage"
      [] OTHER -> "none"

\* Where the command stands once it has the lock.
AfterLock(c) ==
    CASE c.pc = "start" /\ c.op \in LibraryReads -> "lib_locked"
      [] c.pc = "start" /\ c.op = "launch_game" -> "has_lib"
      [] c.pc = "start" /\ c.op \in StorageWrites -> "store_locked"
      [] c.pc = "start" /\ c.op \in SyncOps -> "creds_locked"
      [] c.pc = "start" /\ c.op \in CachedCmds -> "cache_locked"
      [] c.pc = "has_lib" -> "has_both"
      [] c.pc = "refresh" -> "refresh_locked"
      [] c.pc = "save_creds" -> "save_locked"
      [] c.pc = "persist" -> "persist_locked"

\* What refresh_all finds on this machine: nothing, or a Steam and an Epic game.
ParScans == { <<>>, << LE1, LS1 >> }

\* The answers of the token endpoint and of the two owned-games requests.
ParTokenResponses ==
    { [kind |-> "send_failed"],
      [kind |-> "token", status |-> 200, access_token |-> "tokB",
       refresh_token |-> Some("refB"), expires_in |-> 7200] }
ParFetches(op) ==
    IF op = "sync_steam_library"
    THEN { Ok(<< RS1 >>), Err("NetworkError", "send") }
    ELSE { Ok(<< RE1 >>), Err("NetworkError", "send") }

\* AppState::new on a machine with both accounts connected and nothing synced.
InitPar ==
    /\ phase = "run"
    /\ stores = StoreTypes
    /\ available = [a \in StoreTypes |-> a # "Gog"]
    /\ order = << "Steam", "Epic", "Gog" >>
    /\ games = <<>>
    /\ obs = NoObs
    /\ pc = [t \in Threads |-> "idle"]
    /\ all_games = [t \in Threads |-> <<>>]
    /\ lastWrite = <<>>
    /\ steam_creds = Some("key")
    /\ now = 1000
    /\ \E e \in { 0, now + 7200 } : epic_creds = Some(Creds("tokA", "refA", e))
    /\ cache = EmptyCache
    /\ cmd = [p \in Callers |-> Idle]
    /\ held = NoLocks
    /\ net = <<>>
    /\ disk = {}

\* Caller p's command returns res, its guards dropped.
Returns(p, res) ==
    /\ cmd' = [cmd EXCEPT ![p] = With(@, [pc |-> "done", res |-> res])]
    /\ held' = drop_guards(held, p)

\* Caller p's command goes on to pc with the locals r.
GoesOn(p, to, r) == cmd' = [cmd EXCEPT ![p] = With(With(@, r), [pc |-> to])]

\* A command is invoked.
Invoke(p, op) ==
    /\ cmd[p].op = "none"
    /\ cmd' = [cmd EXCEPT ![p] = [op |-> op, pc |-> "start", before_disconnect |-> FALSE]]
    /\ UNCHANGED << libVars, obs, concVars, syncVars, now, held, net, disk >>

\* state.library.lock() / state.storage.lock()
Acquire(p) ==
    /\ WantedLock(cmd[p]) # "none"
    /\ can_lock(held, WantedLock(cmd[p]))
    /\ held' = lock(held, WantedLock(cmd[p]), p)
    /\ cmd' = [cmd EXCEPT ![p] = With(@, [pc |-> AfterLock(@)])]
    /\ UNCHANGED << libVars, obs, concVars, syncVars, now, net, disk >>

\* get_games, find_game and get_installed_games under the library mutex; the
\* last one is a refresh_all.
ReadLibrary(p) ==
    /\ cmd[p].pc = "lib_locked"
    /\ IF cmd[p].op = "get_installed_games"
       THEN \E installed \in ParScans :
              /\ RefreshedTo(installed)
              /\ Returns(p, Ok(installed))
       ELSE /\ Returns(p, IF cmd[p].op = "get_games" THEN Ok(games)
                          ELSE Ok(find_game(games, unique_key(LS1))))
            /\ UNCHANGED << games, lastWrite >>
    /\ UNCHANGED << phase, stores, available, order, obs, pc, all_games, syncVars,
                    now, net, disk >>

\* launch_game with both mutexes: the launch is recorded, then dispatched.
LaunchWithBoth(p) ==
    /\ cmd[p].pc = "has_both"
    /\ disk' = disk \cup { unique_key(LS1) }
    /\ \E r \in LaunchOutcomes :
         Returns(p, launch_game(stores, unique_key(LS1), r).res)
    /\ UNCHANGED << libVars, obs, concVars, syncVars, now, net >>

\* save_steam_credentials and disconnect_steam under the storage mutex.
WriteStorage(p) ==
    /\ cmd[p].pc = "store_locked"
    /\ held' = drop_guards(held, p)
    /\ IF cmd[p].op = "save_steam_credentials"
       THEN /\ steam_creds' = Some("key")
            /\ cmd' = [cmd EXCEPT ![p] = With(@, [pc |-> "done", res |-> Ok("unit")])]
            /\ UNCHANGED cache
       ELSE /\ steam_creds' = None
            /\ cache' = [cache EXCEPT !.steam_owned = <<>>, !.last_sync = None]
            /\ cmd' = [q \in Callers |->
                         IF q = p THEN With(cmd[q], [pc |-> "done", res |-> Ok("unit")])
                         ELSE IF cmd[q].op = "sync_steam_library" /\ cmd[q].pc # "done"
                              THEN With(cmd[q], [before_disconnect |-> TRUE])
                         ELSE cmd[q]]
    /\ UNCHANGED << libVars, obs, concVars, epic_creds, now, net, disk >>

\* Step 1 of the syncs: the credentials are loaded, the guard dropped.
LoadCredentials(p) ==
    /\ cmd[p].pc = "creds_locked"
    /\ LET stored == IF cmd[p].op = "sync_steam_library" THEN steam_creds ELSE epic_creds
       IN  IF stored = None
           THEN Returns(p, Err("String", "credentials not set"))
           ELSE /\ GoesOn(p, IF cmd[p].op = "sync_steam_library" THEN "fetch" ELSE "ensure",
                          [creds |-> stored[1]])
                /\ held' = unlock(held, "storage")
    /\ UNCHANGED << libVars, obs, concVars, syncVars, now, net, disk >>

\* sync_epic_library: ensure_valid_token comes back.
EnsureReturns(p) ==
    /\ cmd[p].pc = "ensure"
    /\ \E resp \in ParTokenResponses :
         LET out == ensure_valid_token(cmd[p].creds, resp, now)
         IN  IF ~out.res.ok THEN Returns(p, out.res)
             ELSE /\ GoesOn(p, IF out.res.val.access_token # cmd[p].creds.access_token
                               THEN "save_creds" ELSE "fetch",
                            [valid_creds |-> out.res.val])
                  /\ UNCHANGED held
    /\ UNCHANGED << libVars, obs, concVars, syncVars, now, net, disk >>

\* sync_epic_library: the refreshed credentials are saved.
SaveRefreshed(p) ==
    /\ cmd[p].pc = "save_locked"
    /\ epic_creds' = Some(cmd[p].valid_creds)
    /\ held' = unlock(held, "storage")
    /\ GoesOn(p, "fetch", [saved |-> TRUE])
    /\ UNCHANGED << libVars, obs, concVars, steam_creds, cache, now, net, disk >>

\* The owned-games request of a sync comes back.
FetchReturns(p) ==
    /\ cmd[p].pc = "fetch"
    /\ \E fetched \in ParFetches(cmd[p].op) :
         IF ~fetched.ok THEN Returns(p, fetched)
         ELSE /\ GoesOn(p, "refresh", [owned_games |-> fetched.val])
              /\ UNCHANGED held
    /\ UNCHANGED << libVars, obs, concVars, syncVars, now, net, disk >>

\* get_*_games_cached: the cache is loaded under the storage mutex.
LoadCache(p) ==
    /\ cmd[p].pc = "cache_locked"
    /\ held' = drop_storage_guard(held)
    /\ GoesOn(p, "refresh",
              [owned_games |-> IF cmd[p].op = "get_steam_games_cached"
                               THEN cache.steam_owned ELSE cache.epic_owned])
    /\ UNCHANGED << libVars, obs, concVars, syncVars, now, net, disk >>

\* refresh_all under the library mutex and the merge: the cached commands
\* return, the syncs go on to persist.
RefreshAndMerge(p) ==
    /\ cmd[p].pc = "refresh_locked"
    /\ \E installed \in ParScans :
         /\ RefreshedTo(installed)
         /\ IF cmd[p].op \in CachedCmds
            THEN Returns(p, Ok(cached_result(
                                 IF cmd[p].op = "get_steam_games_cached" THEN "Steam" ELSE "Epic",
                                 cmd[p].owned_games, installed)))
            ELSE /\ GoesOn(p, "persist",
                           [merged_games |-> sync_merge(Platform(cmd[p].op),
                                                        cmd[p].owned_games, installed)])
                 /\ held' = unlock(held, "library")
    /\ UNCHANGED << phase, stores, available, order, obs, pc, all_games, syncVars,
                    now, net, disk >>

\* The persist block of a sync: load_games_cache ...
PersistLoad(p) ==
    /\ cmd[p].pc = "persist_locked"
    /\ GoesOn(p, "persist_loaded", [cache |-> cache])
    /\ UNCHANGED << libVars, obs, concVars, syncVars, now, held, net, disk >>

\* ... the loaded cache changed and saved, and the sync returns.
PersistSave(p) ==
    /\ cmd[p].pc = "persist_loaded"
    /\ cache' = IF cmd[p].op = "sync_steam_library"
                THEN persist_steam(cmd[p].cache, cmd[p].merged_games)
                ELSE persist_epic(cmd[p].cache, cmd[p].merged_games,
                                  { cmd[p].owned_games[i].id : i \in 1..Len(cmd[p].owned_games) })
    /\ Returns(p, Ok(cmd[p].merged_games))
    /\ UNCHANGED << libVars, obs, concVars, steam_creds, epic_creds, now, net, disk >>

\* The caller has the result of its command.
Finish(p) ==
    /\ cmd[p].pc = "done"
    /\ cmd' = [cmd EXCEPT ![p] = Idle]
    /\ UNCHANGED << libVars, obs, concVars, syncVars, now, held, net, disk >>

NextPar ==
    \E p \in Callers :
        \/ \E op \in Commands : Invoke(p, op)
        \/ Acquire(p)
        \/ ReadLibrary(p)
        \/ LaunchWithBoth(p)
        \/ WriteStorage(p)
        \/ LoadCredentials(p)
        \/ EnsureReturns(p)
        \/ SaveRefreshed(p)
        \/ FetchReturns(p)
        \/ LoadCache(p)
        \/ RefreshAndMerge(p)
        \/ PersistLoad(p)
        \/ PersistSave(p)
        \/ Finish(p)

SpecPar == InitPar /\ [][NextPar]_vars

(***************************************************************************)
(* Properties of the GameLibrary calls                                     *)
(***************************************************************************)

AllLocalGames == UNION { LocalGames(a) : a \in StoreTypes }

Count(g, l) == Cardinality({ i \in 1..Len(l) : l[i] = g })

HasColon(k) == \E i \in 1..Len(k) : k[i] = ":"

\* The text before the first ':' of k, and the text after it.
BeforeColon(k) ==
    LET i == CHOOSE i \in 1..Len(k) : k[i] = ":" /\ \A j \in 1..Len(k) : k[j] = ":" => i <= j
    IN  SubSeq(k, 1, i - 1)
AfterColon(k) ==
    LET i == CHOOSE i \in 1..Len(k) : k[i] = ":" /\ \A j \in 1..Len(k) : k[j] = ":" => i <= j
    IN  SubSeq(k, i + 1, Len(k))

\* What adapter a contributes to a refresh whose scans returned outs.
Contribution(a, outs) ==
    IF a \in stores /\ available[a] /\ outs[a].ok THEN outs[a].val ELSE <<>>

\* C1: refresh_all returns Ok with exactly the games of the adapters that are
\* available and whose scan returned Ok: every game occurs in the result as
\* often as in its own adapter's contribution, whatever the other adapters
\* returned; an unavailable adapter's scan is not called.
C1_RefreshIsolatesAdapters ==
    obs.op = "refresh_all" =>
        /\ obs.res.ok
        /\ \A a \in StoreTypes : (a \notin stores \/ ~available[a]) => obs.outs[a] = NotCalled
        /\ \A a \in StoreTypes :
             LET mine == SelectSeq(obs.res.val, LAMBDA g : g.store = a)
             IN  /\ Len(mine) = Len(Contribution(a, obs.outs))
                 /\ \A g \in AllLocalGames : Count(g, mine) = Count(g, Contribution(a, obs.outs))

\* A refresh with one adapter unavailable, one failing and one contributing.
C1_Witness ==
    /\ obs.op = "refresh_all"
    /\ \E a, b, c \in stores :
         /\ ~available[a]
         /\ available[b] /\ ~obs.outs[b].ok /\ obs.outs[b] # NotCalled
         /\ available[c] /\ obs.outs[c].ok /\ obs.outs[c].val # <<>>
    /\ obs.res.val # <<>>

\* C3: the list refresh_all returns and caches is sorted ascending by
\* lower-cased name, and the games of each lower-cased name appear in the
\* order in which the adapters' results were concatenated.
C3_SortedStable ==
    obs.op = "refresh_all" =>
        LET r == obs.res.val
        IN  /\ games = r
            /\ \A i, j \in 1..Len(r) :
                 i < j => StrCmp(to_lowercase(r[i].name), to_lowercase(r[j].name)) <= 0
            /\ \A g \in AllLocalGames :
                 SelectSeq(r, LAMBDA x : to_lowercase(x.name) = to_lowercase(g.name))
                   = SelectSeq(obs.discovered,
                               LAMBDA x : to_lowercase(x.name) = to_lowercase(g.name))

\* A refresh that had to reorder, with two games whose names differ only in case.
C3_Witness ==
    /\ obs.op = "refresh_all"
    /\ obs.res.val # obs.discovered
    /\ \E i, j \in 1..Len(obs.res.val) :
         /\ i < j
         /\ obs.res.val[i].name # obs.res.val[j].name
         /\ to_lowercase(obs.res.val[i].name) = to_lowercase(obs.res.val[j].name)

C5_LaunchKeyErrors ==
    obs.op = "launch_game" =>
        /\ ~HasColon(obs.key) =>
             /\ obs.res = Err("GameNotFound", obs.key)
             /\ obs.calls = <<>>
        /\ (HasColon(obs.key) /\ \A a \in stores : StoreId(a) # BeforeColon(obs.key)) =>
             /\ obs.res = Err("StoreNotFound", BeforeColon(obs.key))
             /\ obs.calls = <<>>

\* A launch with an unknown store id while other stores are registered.
C5_Witness ==
    /\ obs.op = "launch_game"
    /\ obs.key = k_nostore
    /\ stores = StoreTypes
    /\ obs.res = Err("StoreNotFound", << "n", "o", "s", "t", "o", "r", "e" >>)

\* C6: for a key with a ':' whose prefix is a registered store_id, launch_game
\* calls that adapter's launch_game once with everything after the first ':'
\* and returns the adapter's result; the cache and the adapter's availability
\* play no part.
C6_LaunchDelegates ==
    obs.op = "launch_game" =>
        \A a \in stores :
            (HasColon(obs.key) /\ StoreId(a) = BeforeColon(obs.key)) =>
                /\ obs.calls = << [adapter |-> a, game_id |-> AfterColon(obs.key)] >>
                /\ obs.res = obs.adapterResult

\* A launch of an id that contains ':' on an unavailable adapter, for a game
\* that is not in the cache, handing back the adapter's own error.
C6_Witness ==
    /\ obs.op = "launch_game"
    /\ obs.key = k_epicab
    /\ "Epic" \in stores /\ ~available["Epic"]
    /\ games = <<>>
    /\ obs.calls = << [adapter |-> "Epic", game_id |-> s_ab] >>
    /\ obs.res = Err("LaunchError", "spawn")

\* C2: whatever the interleaving of refresh_all calls and readers, the cache,
\* and so the catalog get_games returns, is empty before the first write and
\* otherwise exactly the list of the refresh_all that wrote last: no mixture
\* of two refreshes, no game kept from an earlier one.
C2_CacheIsOneRefresh ==
    /\ games = lastWrite
    /\ obs.op = "get_games" => obs.res = lastWrite
    /\ obs.op = "refresh_all" => obs.res = Ok(lastWrite)

\* A reader got a non-empty catalog while a refresh that scanned something
\* else, with a game the catalog does not hold, waits to write.
C2_Witness ==
    /\ obs.op = "get_games"
    /\ obs.res # <<>>
    /\ \E t \in Threads : pc[t] = "write" /\ all_games[t] # obs.res
                          /\ \E i \in 1..Len(all_games[t]) : Count(all_games[t][i], obs.res) = 0

(***************************************************************************)
(* Properties of the ownership reconciliation                              *)
(***************************************************************************)

CachedOps == { "get_steam_games_cached", "get_epic_games_cached" }

\* A sync or cached command returned a list: obs carries the platform, the
\* owned list that was merged and the installed list of its refresh.
Reconciled(ops) == obs.op \in ops /\ obs.res.ok

\* The positions of the installed list holding a game of platform st with id.
LocalHits(installed_games, st, id) ==
    { j \in 1..Len(installed_games) :
        installed_games[j].store = st /\ installed_games[j].id = id }

SameLocalFields(r, l) ==
    /\ r.install_path = l.install_path
    /\ r.executable = l.executable
    /\ r.size_bytes = l.size_bytes

C8_NotInstalledHasNoLocalFields ==
    Reconciled(SyncOps \cup CachedOps) =>
        \A i \in 1..Len(obs.res.val) :
            ~obs.res.val[i].installed =>
                /\ obs.res.val[i].install_path = None
                /\ obs.res.val[i].executable = None
                /\ obs.res.val[i].size_bytes = None

\* C9: with a non-empty persisted owned list, a cached command returns the
\* list the sync merge of its platform produces from that owned list and the
\* current scan.
C9_CachedEqualsSyncMerge ==
    (Reconciled(CachedOps) /\ obs.owned # <<>>) =>
        obs.res.val = sync_merge(obs.store, obs.owned, obs.installed)

\* C10: merging the result of a merge with the same installed list again
\* gives the same list, for the sync merge and the cached merge of the
\* platform, over every owned list and installed list a command has merged.
C10_MergeIdempotent ==
    Reconciled(SyncOps \cup CachedOps) =>
        LET once == sync_merge(obs.store, obs.owned, obs.installed)
            onceCached == cached_merge(obs.store, obs.owned, obs.installed)
        IN  /\ sync_merge(obs.store, once, obs.installed) = once
            /\ cached_merge(obs.store, onceCached, obs.installed) = onceCached

\* A cached command merged a persisted list in which one game found a local
\* entry and took its fields and another lost the entry it had when persisted.
C10_Witness ==
    /\ Reconciled(CachedOps)
    /\ cached_merge(obs.store, obs.owned, obs.installed) # obs.owned
    /\ sync_merge(obs.store, obs.owned, obs.installed) # obs.owned
    /\ \E i \in 1..Len(obs.owned) :
         /\ LocalHits(obs.installed, obs.store, obs.owned[i].id) # {}
         /\ ~obs.owned[i].installed
    /\ \E i \in 1..Len(obs.owned) :
         /\ LocalHits(obs.installed, obs.store, obs.owned[i].id) = {}
         /\ obs.owned[i].installed

\* C11: a sync that returns Ok(merged) has persisted the merged list, which is
\* the list it returns, as its platform's owned list with a sync time, and
\* has left the other platform's entries alone; a sync that returns an error
\* (credentials not set, token refresh, remote fetch) leaves the persisted
\* cache exactly as it was.
C11_SyncPersistsMergedOrNothing ==
    [][ (obs.op = "none" /\ obs'.op \in SyncOps) =>
          IF ~obs'.res.ok THEN cache' = cache
          ELSE /\ obs'.res.val = sync_merge(obs'.store, obs'.owned, obs'.installed)
               /\ IF obs'.store = "Steam"
                  THEN /\ cache'.steam_owned = obs'.res.val
                       /\ cache'.last_sync = Some("now")
                       /\ cache'.epic_owned = cache.epic_owned
                       /\ cache'.epic_last_sync = cache.epic_last_sync
                  ELSE /\ cache'.epic_owned = obs'.res.val
                       /\ cache'.epic_last_sync = Some("now")
                       /\ cache'.steam_owned = cache.steam_owned
                       /\ cache'.last_sync = cache.last_sync ]_vars

\* A Steam sync returned a merged list that differs from the fetched one and
\* that list is what the cache holds, next to an Epic list persisted earlier.
C11_Witness ==
    /\ Reconciled({ "sync_steam_library" })
    /\ obs.res.val # obs.owned
    /\ cache.steam_owned = obs.res.val
    /\ cache.last_sync # None
    /\ cache.epic_owned # <<>>

\* C12 as stated: for Steam and for Epic, a merged game carries the local
\* entry's name when it has a matching installed entry and its remote name
\* starts with "App ", and the remote name in every other case.
C12_PlaceholderNameBothPlatforms ==
    Reconciled(SyncOps) =>
        \A i \in 1..Len(obs.owned) :
            LET hits == LocalHits(obs.installed, obs.store, obs.owned[i].id)
            IN  IF hits # {} /\ starts_with(obs.owned[i].name, s_AppPrefix)
                THEN \E j \in hits : obs.res.val[i].name = obs.installed[j].name
                ELSE obs.res.val[i].name = obs.owned[i].name

\* C12 amended: in sync_steam_library a merged game carries the name of the
\* local entry it matched when its remote name starts with "App ", and its
\* remote name in every other case; in sync_epic_library every merged game
\* keeps its remote name.
C12_PlaceholderNameSteamOnly ==
    Reconciled(SyncOps) =>
        \A i \in 1..Len(obs.owned) :
            LET hits == LocalHits(obs.installed, obs.store, obs.owned[i].id)
            IN  IF obs.store = "Steam" /\ hits # {}
                   /\ starts_with(obs.owned[i].name, s_AppPrefix)
                THEN \E j \in hits : /\ \A h \in hits : h <= j
                                     /\ obs.res.val[i].name = obs.installed[j].name
                ELSE obs.res.val[i].name = obs.owned[i].name

\* A Steam sync in which a game with a placeholder name took its local name
\* and a game with a proper remote name kept it although its local entry is
\* named differently.
C12_Witness ==
    /\ Reconciled({ "sync_steam_library" })
    /\ \E i \in 1..Len(obs.owned) :
         /\ starts_with(obs.owned[i].name, s_AppPrefix)
         /\ obs.res.val[i].name # obs.owned[i].name
    /\ \E i \in 1..Len(obs.owned) :
         /\ ~starts_with(obs.owned[i].name, s_AppPrefix)
         /\ \E j \in LocalHits(obs.installed, "Steam", obs.owned[i].id) :
              obs.installed[j].name # obs.owned[i].name
         /\ obs.res.val[i].name = obs.owned[i].name

(***************************************************************************)
(* Properties of the read calls and of the unique key                      *)
(***************************************************************************)

ReadOps == { "get_games", "get_installed_games", "find_game" }

\* C18: get_games, get_installed_games and find_game leave the cached catalog
\* as it was and call no adapter's scan; get_games returns the whole cache,
\* get_installed_games the cached games with installed = true in cache order.
C18_ReadsAreViews ==
    [][ (obs.op = "none" /\ obs'.op \in ReadOps) =>
          /\ games' = games
          /\ obs'.scanned = {}
          /\ obs'.op = "get_games" => obs'.res = games
          /\ obs'.op = "get_installed_games" =>
               /\ \A i \in 1..Len(obs'.res) : obs'.res[i].installed
               /\ \A g \in AllLocalGames :
                    Count(g, obs'.res) = IF g.installed THEN Count(g, games) ELSE 0
               /\ \A i, j \in 1..Len(obs'.res) :
                    i < j => \E a, b \in 1..Len(games) :
                                 a < b /\ games[a] = obs'.res[i] /\ games[b] = obs'.res[j] ]_vars

\* get_installed_games answered from a cache that holds an installed game
\* after a game that is not installed, and left one of the two out.
C18_Witness ==
    /\ obs.op = "get_installed_games"
    /\ obs.res # <<>>
    /\ obs.res # games
    /\ \E a, b \in 1..Len(games) : a < b /\ ~games[a].installed /\ games[b].installed

\* The store name of a unique key, spelled out.
StoreKeyName(st) ==
    CASE st = "Steam" -> << "s", "t", "e", "a", "m" >>
      [] st = "Epic"  -> << "e", "p", "i", "c" >>
      [] st = "Gog"   -> << "g", "o", "g" >>

\* C19: the unique key of a game is "steam", "epic" or "gog", then ':', then
\* the id as it is; two games have the same key exactly when they have the
\* same store and the same id, also for ids that contain ':'.
C19_UniqueKeyIsStoreColonId ==
    obs.op = "unique_key" =>
        /\ \A i \in 1..Len(games) :
             obs.keys[i] = StoreKeyName(games[i].store) \o << ":" >> \o games[i].id
        /\ \A i, j \in 1..Len(games) :
             (obs.keys[i] = obs.keys[j]) <=>
                 (games[i].store = games[j].store /\ games[i].id = games[j].id)

\* Keys taken of two games of different stores whose ids hold a ':' and
\* differ only in the case of a letter.
C19_Witness ==
    /\ obs.op = "unique_key"
    /\ games[1].store # games[2].store
    /\ games[1].id = << ":", "a" >>
    /\ games[2].id = << ":", "A" >>
    /\ obs.keys[1] # obs.keys[2]

(***************************************************************************)
(* Properties of the Epic token logic                                      *)
(***************************************************************************)

TokenOps == { "exchange_code", "ensure_valid_token" }

\* C15 as stated: whenever the code exchange or the token refresh fails, the
\* error is AuthRequired, however it failed.
C15_TokenFailureIsAuthRequired ==
    (obs.op \in TokenOps /\ ~obs.res.ok) => obs.res.kind = "AuthRequired"

\* C15 amended: a code exchange or token refresh that the endpoint answers
\* with a non-success status fails with AuthRequired; one whose request does
\* not go through fails with NetworkError, and one whose success body cannot
\* be parsed with ParseError.
C15_TokenFailureKinds ==
    (obs.op \in TokenOps /\ obs.requests # <<>>) =>
        /\ obs.resp.kind = "status" => (~obs.res.ok /\ obs.res.kind = "AuthRequired")
        /\ obs.resp.kind = "send_failed" => (~obs.res.ok /\ obs.res.kind = "NetworkError")
        /\ obs.resp.kind = "bad_json" => (~obs.res.ok /\ obs.res.kind = "ParseError")
        /\ obs.resp.kind = "token" => obs.res.ok

\* A refresh the endpoint refused with a 503, reported as AuthRequired.
C15_Witness ==
    /\ obs.op = "ensure_valid_token"
    /\ obs.requests # <<>>
    /\ obs.resp.kind = "status"
    /\ obs.resp.status = 503
    /\ obs.res = Err("AuthRequired", "Token refresh failed")

(***************************************************************************)
(* Properties of the sync commands' steps                                  *)
(***************************************************************************)

\* C14: while sync_epic_library has its library fetch in flight after a
\* refresh exchange that succeeded, the credential store holds the refreshed
\* credentials: access token, refresh token and expiry.
C14_RefreshedCredsSavedBeforeFetch ==
    (cmd.op = "sync_epic_library" /\ cmd.pc = "fetch"
       /\ \E i \in 1..Len(net) : net[i].grant = "refresh_token") =>
        epic_creds = Some(cmd.valid_creds)

\* C17: while the network call of a sync is in flight the sync holds neither
\* the library mutex nor the storage mutex.
C17_NoLockDuringNetworkCall ==
    (cmd.op \in SyncOps /\ cmd.pc \in NetworkSteps) =>
        /\ held.library # Some("sync")
        /\ held.storage # Some("sync")

\* get_games of another caller was served while the Epic sync, which has
\* already held the storage mutex twice, had its library fetch in flight.
C17_Witness ==
    /\ obs.op = "get_games"
    /\ obs.during = "fetch"
    /\ cmd.op = "sync_epic_library"
    /\ cmd.pc = "fetch"
    /\ epic_creds = Some(cmd.valid_creds)
    /\ cmd.valid_creds # cmd.creds
    /\ held = NoLocks

(***************************************************************************)
(* Properties of the library pagination                                    *)
(***************************************************************************)

\* What the page of one recorded request added to the result: the catalog
\* entries that were answered for its records, nothing when the lookup failed.
PageGames(entry) ==
    IF entry.resp.kind = "page" /\ entry.cat.kind = "catalog" THEN entry.cat.items ELSE <<>>

RECURSIVE AllPageGames(_)
AllPageGames(entries) ==
    IF entries = <<>> THEN <<>>
    ELSE AllPageGames(SubSeq(entries, 1, Len(entries) - 1)) \o PageGames(entries[Len(entries)])

PageFailure(resp) ==
    CASE resp.kind = "send_failed" -> "NetworkError"
      [] resp.kind = "status" /\ resp.status = 401 -> "AuthRequired"
      [] resp.kind = "status" /\ resp.status # 401 -> "NetworkError"
      [] resp.kind = "bad_json" -> "ParseError"
      [] OTHER -> "none"

\* The requests of get_library so far follow the cursor chain, the loop is
\* left exactly at a page without a next cursor or at a failing page request,
\* and the result is every fetched page's games in page order, or an error
\* without any list.
PaginationFollowsCursor ==
    /\ Len(net) > 0 => net[1].cursor = None
    /\ \A i \in 2..Len(net) :
         /\ net[i - 1].resp.kind = "page"
         /\ net[i - 1].resp.next_cursor # None
         /\ net[i].cursor = net[i - 1].resp.next_cursor
    /\ cmd.pc = "request" =>
         /\ cmd.games = AllPageGames(net)
         /\ Len(net) > 0 =>
              /\ net[Len(net)].resp.kind = "page"
              /\ cmd.cursor = net[Len(net)].resp.next_cursor
              /\ cmd.cursor # None
    /\ cmd.pc = "done" =>
         /\ Len(net) > 0
         /\ LET last == net[Len(net)].resp
            IN  IF last.kind = "page"
                THEN /\ last.next_cursor = None
                     /\ cmd.res.ok
                     /\ cmd.res.val.games = AllPageGames(net)
                ELSE /\ ~cmd.res.ok
                     /\ cmd.res.kind = PageFailure(last)
                     /\ "val" \notin DOMAIN cmd.res

\* C16: get_library requests the first page without a cursor and then one
\* page per returned cursor, leaves the loop exactly at a page without a next
\* cursor or at a failing page request, returns the games of every fetched
\* page or an error without a list, and returns once the server has answered
\* a page without a cursor.
C16_PaginationTerminates ==
    /\ []PaginationFollowsCursor
    /\ <>(cmd.pc = "done")

\* Three pages were fetched along two different cursors, the first and the
\* last gave games, the catalog lookup of the second failed, and the result
\* holds the games of the first and the last page.
C16_Witness ==
    /\ cmd.op = "get_library"
    /\ cmd.pc = "done"
    /\ cmd.res.ok
    /\ Len(net) = 3
    /\ net[2].cursor # net[3].cursor
    /\ net[1].resp.records # <<>>
    /\ net[1].cat.kind = "catalog"
    /\ net[2].resp.records # <<>>
    /\ net[2].cat.kind = "send_failed"
    /\ net[3].cat.kind = "catalog"
    /\ Len(cmd.res.val.games) = Len(net[1].cat.items) + Len(net[3].cat.items)

(***************************************************************************)
(* Properties of the directory scans                                       *)
(***************************************************************************)

\* The manifests of a directory that the claim counts as parsing: named as a
\* manifest, readable, and for Steam with appid and name, for Epic valid
\* JSON with every required key and not an incomplete install.
Parses(store, f) ==
    /\ f.manifest
    /\ f.readable
    /\ IF store = "Steam"
       THEN f.appid # None /\ f.name # None
       ELSE /\ f.json
            /\ f.AppName # None /\ f.DisplayName # None
            /\ f.InstallLocation # None /\ f.LaunchExecutable # None
            /\ ~f.bIsIncompleteInstall

ManifestId(store, f) == IF store = "Steam" THEN f.appid[1] ELSE f.AppName[1]

\* C20: a scan that gets to read its directory returns Ok with one game per
\* manifest that parses, in directory order, whatever the other manifests of
\* the directory are.
C20_ScanSkipsBadManifests ==
    (obs.op = "scan_installed_games" /\ disk.root /\ disk.vdf # "unreadable" /\ disk.dir) =>
        /\ obs.res.ok
        /\ LET good == SelectSeq(disk.entries, LAMBDA f : Parses(disk.store, f))
           IN  /\ Len(obs.res.val) = Len(good)
               /\ \A k \in 1..Len(good) :
                    /\ obs.res.val[k].id = ManifestId(disk.store, good[k])
                    /\ obs.res.val[k].store = disk.store
                    /\ obs.res.val[k].installed

\* An Epic directory with a good manifest, then an incomplete install, then
\* another good manifest was scanned: two games came back.
C20_Witness ==
    /\ obs.op = "scan_installed_games"
    /\ disk.store = "Epic"
    /\ Len(disk.entries) = 3
    /\ Parses("Epic", disk.entries[1])
    /\ disk.entries[2].manifest /\ disk.entries[2].json
    /\ disk.entries[2].bIsIncompleteInstall
    /\ Parses("Epic", disk.entries[3])
    /\ obs.res.ok
    /\ Len(obs.res.val) = 2

(***************************************************************************)
(* Properties of the GOG database queries                                  *)
(***************************************************************************)

IdsOf(l) == [i \in 1..Len(l) |-> l[i].id]

\* C21: with at least one row in InstalledBaseProducts the result is one game
\* per product id of that table and nothing else; with no row, no table or a
\* failing query on it the result is what the LibraryReleases query gives,
\* nothing when that fails.
C21_StrategiesAreExclusive ==
    obs.op = "query_installed_games" =>
        /\ obs.res.ok
        /\ IF disk.InstalledBaseProducts.rows # <<>>
           THEN IdsOf(obs.res.val) = disk.InstalledBaseProducts.rows
           ELSE obs.res.val = (IF obs.releases.ok THEN obs.releases.val ELSE <<>>)

\* Both tables have rows the queries accept, and only the products came back.
C21_Witness ==
    /\ obs.op = "query_installed_games"
    /\ Len(disk.InstalledBaseProducts.rows) = 2
    /\ obs.releases.ok
    /\ obs.releases.val # <<>>
    /\ Len(obs.res.val) = 2

\* C22: every game of the LibraryReleases query comes from a row whose key
\* starts with the literal "gog_", has that key without the prefix as id, the
\* row's title as name and installed = true.
C22_FallbackKeepsOnlyGogPrefix ==
    (obs.op = "query_installed_games" /\ obs.releases.ok) =>
        \A k \in 1..Len(obs.releases.val) :
            \E i \in 1..Len(disk.LibraryReleases.rows) :
                LET row == disk.LibraryReleases.rows[i]
                IN  /\ starts_with(row.releaseKey, s_gog_)
                    /\ obs.releases.val[k].id = SubSeq(row.releaseKey, 5, Len(row.releaseKey))
                    /\ row.title = Some(obs.releases.val[k].name)
                    /\ obs.releases.val[k].installed

(***************************************************************************)
(* Properties of the Steam library folders                                 *)
(***************************************************************************)

\* The "path" values of the descriptor that exist on disk, in file order.
ExistingPaths(vdf) ==
    LET found == SelectSeq(vdf.lines,
                           LAMBDA l : l.key = "path" /\ l.value # None /\ l.exists)
    IN  [i \in 1..Len(found) |-> found[i].value[1]]

\* C23: with a descriptor next to the client root the scan never fails on it
\* and reads the existing "path" folders in file order, the client root alone
\* when there is none.
C23_DescriptorNeverFailsScan ==
    (obs.op = "library_folders" /\ disk.steam_path # None /\ disk.vdf.state # "absent") =>
        /\ obs.res.ok
        /\ obs.res.val = Some(IF ExistingPaths(disk.vdf) = <<>>
                              THEN << disk.steam_path[1] >>
                              ELSE ExistingPaths(disk.vdf))

(***************************************************************************)
(* Properties of Storage                                                   *)
(***************************************************************************)

\* The files an operation reads.
FilesRead(op) ==
    CASE op \in { "load_credentials", "save_steam_credentials" } -> { "credentials" }
      [] op \in { "load_games_cache", "persist_sync" } -> { "games_cache" }
      [] op \in { "load_play_history", "record_game_launch" } -> { "play_history" }
      [] op = "load_settings" -> { "settings" }
      [] op = "clear_steam_data" -> { "credentials", "games_cache" }
      [] OTHER -> {}

StorageOps ==
    { "load_credentials", "load_games_cache", "load_play_history", "load_settings",
      "save_steam_credentials", "persist_sync", "record_game_launch", "clear_steam_data" }

\* C24: an operation that finds every file it reads absent or holding a value
\* returns Ok; a load of an absent file returns the default, and a rewrite
\* over an absent file leaves the file holding the default with the
\* operation's change applied.
C24_AbsentFileIsDefault ==
    (obs.op \in StorageOps
       /\ \A f \in FilesRead(obs.op) : obs.before[f].state # "corrupt") =>
        /\ obs.res.ok
        /\ (obs.op = "load_credentials" /\ obs.before.credentials = Absent) =>
               obs.res.val = DefaultCredentials
        /\ (obs.op = "load_games_cache" /\ obs.before.games_cache = Absent) =>
               obs.res.val = EmptyCache
        /\ (obs.op = "load_play_history" /\ obs.before.play_history = Absent) =>
               obs.res.val = DefaultPlayHistory
        /\ (obs.op = "load_settings" /\ obs.before.settings = Absent) =>
               obs.res.val = DefaultSettings
        /\ (obs.op = "save_steam_credentials" /\ obs.before.credentials = Absent) =>
               disk.credentials = File([steam |-> Some("key"), epic |-> None])
        /\ (obs.op = "persist_sync" /\ obs.before.games_cache = Absent) =>
               disk.games_cache = File(persist_steam(EmptyCache, << RS1 >>))
        /\ (obs.op = "record_game_launch" /\ obs.before.play_history = Absent) =>
               /\ disk.play_history.state = "file"
               /\ DOMAIN disk.play_history.content.games = { unique_key(RS1) }
               /\ disk.play_history.content.games[unique_key(RS1)].last_played = Some(now)
        /\ (obs.op = "clear_steam_data" /\ obs.before.credentials = Absent
              /\ obs.before.games_cache = Absent) =>
               /\ disk.credentials = File(DefaultCredentials)
               /\ disk.games_cache = File(EmptyCache)

\* clear_steam_data ran with no file in the data directory and returned Ok.
C24_Witness ==
    /\ obs.op = "clear_steam_data"
    /\ \A f \in DOMAIN obs.before : obs.before[f] = Absent
    /\ obs.res.ok
    /\ disk.credentials.state = "file"
    /\ disk.games_cache.state = "file"
    /\ disk.play_history = Absent

(***************************************************************************)
(* Properties of detect_steam_id                                           *)
(***************************************************************************)

\* The positions of the user-id lines of a login file.
IdLines(lines) == { i \in 1..Len(lines) : lines[i].kind = "quoted" /\ lines[i].digits }

\* The ids of the user blocks that hold a MostRecent "1" line.
FlaggedIds(lines) ==
    { lines[i].id : i \in { i \in IdLines(lines) :
        \E j \in (i + 1)..Len(lines) :
            /\ lines[j].kind = "MostRecent" /\ lines[j].value = "1"
            /\ \A k \in (i + 1)..j : k \notin IdLines(lines) } }

\* C25: detect_steam_id gives the id of a block flagged MostRecent "1", the
\* first id of the file when no block is flagged, None when there is no id,
\* no file or no Steam path.
C25_MostRecentOrFirstId ==
    obs.op = "detect_steam_id" =>
        IF disk.steam_path = None \/ disk.loginusers.state # "file" THEN obs.res = None
        ELSE LET lines == disk.loginusers.content
             IN  IF FlaggedIds(lines) # {} THEN obs.res # None /\ obs.res[1] \in FlaggedIds(lines)
                 ELSE IF IdLines(lines) # {}
                      THEN obs.res = Some(lines[CHOOSE i \in IdLines(lines) :
                                                  \A j \in IdLines(lines) : i <= j].id)
                 ELSE obs.res = None

(***************************************************************************)
(* The merged list against the owned list                                  *)
(***************************************************************************)

\* The fields of a game that a merge with the local scan may change.
MergedFields == { "installed", "install_path", "executable", "size_bytes", "name" }

\* C29: the list a sync returns, and the list the cached path returns over a
\* non-empty persisted owned list, has the owned list's length and, position
\* by position, the owned game with at most its installed, install_path,
\* executable, size_bytes and name changed; no local game is added.
C29_MergeKeepsOwnedList ==
    (obs.op \in SyncOps \cup CachedOps /\ obs.res.ok /\ "owned" \in DOMAIN obs
       /\ obs.owned # <<>>) =>
        /\ Len(obs.res.val) = Len(obs.owned)
        /\ \A i \in 1..Len(obs.owned) :
             \A f \in DOMAIN obs.owned[i] \ MergedFields :
                 obs.res.val[i][f] = obs.owned[i][f]

\* A Steam sync whose scan found an installed game that is not owned next to
\* one that is: the result is the two owned games.
C29_Witness ==
    /\ obs.op = "sync_steam_library"
    /\ obs.res.ok
    /\ Len(obs.owned) = 2
    /\ \E i \in 1..Len(obs.installed) :
         /\ obs.installed[i].store = "Steam"
         /\ \A k \in 1..Len(obs.owned) : obs.owned[k].id # obs.installed[i].id
    /\ \E i \in 1..Len(obs.installed), k \in 1..Len(obs.owned) :
         obs.installed[i].store = "Steam" /\ obs.installed[i].id = obs.owned[k].id
    /\ Len(obs.res.val) = 2

(***************************************************************************)
(* Properties of the launch of a cached game                               *)
(***************************************************************************)

\* C30: every cached game, found by the one adapter that scanned, is installed
\* and carries that adapter's store, the part of its unique key before the
\* first ':' is the adapter's store_id, and launch_game with that key calls
\* that adapter once with the game's id and returns what the adapter returns.
C30_CachedGameLaunchesOnItsAdapter ==
    /\ \A i \in 1..Len(games) :
         /\ games[i].installed
         /\ games[i].store = disk.store
         /\ BeforeColon(unique_key(games[i])) = StoreId(disk.store)
    /\ (obs.op = "launch_game" /\ "game" \in DOMAIN obs) =>
         /\ obs.calls = << [adapter |-> disk.store, game_id |-> obs.game.id] >>
         /\ obs.res = obs.adapterResult
         /\ ~obs.res.ok => obs.res.kind \notin { "GameNotFound", "StoreNotFound" }

\* An Epic game whose id holds a ':' was found by the scan, cached and
\* launched by its unique key.
C30_Witness ==
    /\ obs.op = "launch_game"
    /\ "game" \in DOMAIN obs
    /\ disk.store = "Epic"
    /\ HasColon(obs.game.id)
    /\ obs.res.ok
    /\ Len(obs.calls) = 1

(***************************************************************************)
(* Properties of the commands of concurrent callers                        *)
(***************************************************************************)

\* The step is taken by caller p.
StepOf(p) == cmd'[p] # cmd[p]

\* The step is the save that ends the persist block of caller p's sync.
SavesCache(p) == cmd[p].pc = "persist_loaded" /\ cmd'[p].pc = "done"

\* C26: once disconnect_steam has returned, the persisted cache holds no Steam
\* owned games and no Steam sync time until a sync_steam_library that started
\* after the disconnect completes: no sync that was under way when the
\* disconnect returned puts Steam data into the cleared cache.
C26_DisconnectOutlastsSyncInFlight ==
    [][\A p \in Callers :
         (cmd[p].op = "sync_steam_library" /\ cmd[p].before_disconnect /\ StepOf(p)
            /\ cache.last_sync = None /\ cache.steam_owned = <<>>)
         => (cache'.last_sync = None /\ cache'.steam_owned = <<>>)]_vars

SteamPart(c) == << c.steam_owned, c.last_sync >>
EpicPart(c) == << c.epic_owned, c.epic_last_sync, c.epic_metadata >>

\* C27: the save of sync_steam_library replaces the Steam list and the Steam
\* sync time of the cache file as it stands and leaves its Epic list, Epic sync
\* time and Epic metadata alone, and the save of sync_epic_library does the
\* same the other way round, whatever the other caller's command did in between.
C27_SyncWritesOnlyItsPlatform ==
    [][\A p \in Callers :
         SavesCache(p) =>
           IF cmd[p].op = "sync_steam_library"
           THEN /\ EpicPart(cache') = EpicPart(cache)
                /\ SteamPart(cache') = << cmd[p].merged_games, Some("now") >>
           ELSE /\ SteamPart(cache') = SteamPart(cache)
                /\ cache'.epic_owned = cmd[p].merged_games
                /\ cache'.epic_last_sync = Some("now")]_vars

\* Two syncs under way together have both returned and the cache file holds
\* the list of each.
C27_Witness ==
    \E p, q \in Callers :
        /\ cmd[p].op = "sync_steam_library" /\ cmd[p].pc = "done" /\ cmd[p].res.ok
        /\ cmd[q].op = "sync_epic_library" /\ cmd[q].pc = "done" /\ cmd[q].res.ok
        /\ cache.steam_owned = cmd[p].merged_games /\ cache.steam_owned # <<>>
        /\ cache.epic_owned = cmd[q].merged_games /\ cache.epic_owned # <<>>

\* Caller p waits for a mutex another caller holds.
Blocked(p) == WantedLock(cmd[p]) # "none" /\ held[WantedLock(cmd[p])] # None

\* The caller p waits for.
Blocker(p) == held[WantedLock(cmd[p])][1]

\* C28: no interleaving of the commands deadlocks. Both mutexes are held by
\* one caller only inside launch_game, which took the library first; a caller
\* between commands holds none; and whoever a waiting caller waits for is
\* itself able to move, or waits for a caller that is.
C28_NoCommandDeadlocks ==
    /\ \A p \in Callers :
         (held.library = Some(p) /\ held.storage = Some(p))
            => (cmd[p].op = "launch_game" /\ cmd[p].pc = "has_both")
    /\ \A p \in Callers :
         cmd[p].pc \in { "idle", "start", "done" }
            => (held.library # Some(p) /\ held.storage # Some(p))
    /\ \A p \in Callers :
         Blocked(p) => (~Blocked(Blocker(p)) \/ ~Blocked(Blocker(Blocker(p))))
    /\ \A m \in DOMAIN held : held[m] # None => held[m][1] \in Callers

\* launch_game holds both mutexes while the other caller waits for one of them.
C28_Witness ==
    \E p, q \in Callers :
        /\ cmd[p].op = "launch_game" /\ cmd[p].pc = "has_both"
        /\ held.library = Some(p) /\ held.storage = Some(p)
        /\ cmd[q].op \in CachedCmds /\ Blocked(q)

====
